---- MODULE Spec2Model ----
(***************************************************************************)
(* Reconciliation and apply engine of iambic.                              *)
(*                                                                         *)
(*   SpecAspects  the aspect operations of plugins/v0_1_0/aws/iam/role/    *)
(*                utils.py and okta/app/utils.py, run in passes over one   *)
(*                input (template state, live provider state)              *)
(*   SpecDelete   delete_iam_role, one step per await                      *)
(*   SpecDriver   run_plan / run_apply of main.py                          *)
(*   SpecFetch    get_role_across_accounts, one step per task              *)
(*   SpecGetApp   get_app under its tenacity retry (FairGetApp: with       *)
(*                weak fairness of its steps)                              *)
(*   SpecMerge    merge_model on UserProperties and its named groups       *)
(*   SpecValidate validation of UserProperties on construction and by      *)
(*                validate_model_afterward                                 *)
(*   SpecScope    account scope of a user template, template generation    *)
(*   SpecListApps list_all_apps, one step per listing call and per task    *)
(*                (FairListApps: with weak fairness of the program's steps)*)
(***************************************************************************)
EXTENDS Integers, Sequences, FiniteSets, TLC

VARIABLES
    \* ---- aspect operations
    aspect,        \* which aspect operation the scenario exercises
    template,      \* desired state handed to the operation
    live,          \* state held by the provider
    faults,        \* provider operations that answer with an error
    log_params,    \* the log_params mapping shared with the caller (its keys)
    passes,        \* one record per finished invocation
    \* ---- delete_iam_role
    dpc,           \* position in delete_iam_role
    role0,         \* the role and its dependents when delete_iam_role starts
    role,          \* the role and its dependents at the provider
    dfail,         \* calls the provider refuses
    tasks,         \* call -> "running" | "ok" | "err" for the calls issued
    issued,        \* calls in the order they were issued
    \* ---- run_plan / run_apply
    cmd, force, templates, drifted, answer,
    pc, eval_only, template_changes, applyLog, detectLog, flips,
    \* ---- get_role_across_accounts
    aws_accounts,  \* the accounts handed to get_role_across_accounts
    outcome,       \* account id -> what the provider answers there
    fpc,           \* position in get_role_across_accounts
    fetched,       \* account id -> response of its finished task
    completed,     \* account ids in the order their tasks finished
    returned,      \* the mapping returned to the caller, if any
    \* ---- get_app
    gpc,           \* position in get_app and the retry around it
    okta_app,      \* the app the organization holds under app_id, if any
    attempt_number,        \* attempts of get_app started so far
    get_application_calls, \* client.get_application calls made so far
    got_app,       \* the App get_app returned, if any
    \* ---- merge_model
    mpc,            \* position: raw input, validated models, merged
    new_model,      \* the newly generated (discovered) UserProperties
    existing_model, \* the previously persisted UserProperties
    merged_model,   \* what merge_model returned, if it ran
    \* ---- validation of UserProperties fields
    vpc,            \* position: raw input, validated, reassigned, revalidated, rejected
    field,          \* the field under validation
    raw_items,      \* the list handed to the constructor
    model_items,    \* the field of the constructed model, if any
    provider_calls, \* provider calls made with the model
    \* ---- account scope and template generation
    tpc,               \* position: new, written, edited, applied, regenerated
    user_template,     \* the template in memory
    file_sys_template, \* the template file, if there is one
    touched,           \* accounts the last apply of the template worked on
    file_before,       \* the template file before template generation ran
    deleted_account,   \* the account whose deletion was detected, if any
    \* ---- list_all_apps
    lpc,             \* position in list_all_apps
    pages,           \* the pages of the organization's application listing
    raw_apps,        \* raw_apps: what the listing calls have put together
    has_next,        \* resp.has_next() of the last response
    list_calls,      \* client.list_applications calls made so far
    apps,            \* the App ids of line 149, in listing order
    app_assignments, \* task -> the dict it returned, for the finished tasks
    finished,        \* tasks in the order they finished
    apps_to_return   \* the list returned to the caller, if any

aspectVars == <<aspect, template, live, faults, log_params, passes>>
deleteVars == <<dpc, role0, role, dfail, tasks, issued>>
driverVars == <<cmd, force, templates, drifted, answer, pc, eval_only,
                template_changes, applyLog, detectLog, flips>>
fetchVars  == <<aws_accounts, outcome, fpc, fetched, completed, returned>>
getAppVars == <<gpc, okta_app, attempt_number, get_application_calls, got_app>>
mergeVars == <<mpc, new_model, existing_model, merged_model>>
validateVars == <<vpc, field, raw_items, model_items, provider_calls>>
scopeVars == <<tpc, user_template, file_sys_template, touched, file_before,
               deleted_account>>
listAppsVars == <<lpc, pages, raw_apps, has_next, list_calls, apps,
                  app_assignments, finished, apps_to_return>>
vars == <<aspectVars, deleteVars, driverVars, fetchVars, getAppVars, mergeVars,
          validateVars, scopeVars, listAppsVars>>

(***************************************************************************)
(* Bounds                                                                  *)
(***************************************************************************)
MaxPasses == 2       \* invocations of one aspect operation on one input
MaxStatements == 2   \* statements of a policy document
MaxFaults == 1       \* provider operations failing in one scenario
MaxTemplates == 2    \* template files of the repository
MaxAccounts == 3     \* AWS accounts a role is fetched from
MaxDependents == 2   \* instance profiles, managed policies, inline policies of a role
MaxApps == 2         \* applications of an Okta organization
MaxPages == 2        \* pages of the application listing
MaxListCalls == 3    \* list_applications calls that are counted one by one

(***************************************************************************)
(* Generic helpers                                                         *)
(***************************************************************************)
None == <<>>
Some(x) == <<x>>

Range(s) == {s[i] : i \in DOMAIN s}

SeqsUpTo(S, n) == UNION {[1..k -> S] : k \in 0..n}

NoDup(s) == \A i, j \in DOMAIN s : i # j => s[i] # s[j]

Perms(n) == {p \in [1..n -> 1..n] : \A i, j \in 1..n : i # j => p[i] # p[j]}

Count(s, x) == Cardinality({i \in DOMAIN s : s[i] = x})

RECURSIVE FlatMap(_, _)
FlatMap(F(_), s) == IF s = <<>> THEN <<>> ELSE F(Head(s)) \o FlatMap(F, Tail(s))

\* context.execute: the flag of the ExecutionContext that main.py sets through
\* ctx.eval_only
Execute(ctx_eval_only) == ~ctx_eval_only

ProposedChange(ct, attr, rid, cur, new, summary) ==
    [change_type |-> ct, attribute |-> attr, resource_id |-> rid,
     current_value |-> cur, new_value |-> new, change_summary |-> summary]

Call(op, key, payload) == [op |-> op, key |-> key, payload |-> payload]

(***************************************************************************)
(* apply_role_tags                                                         *)
(***************************************************************************)
TagKeySet == {"k1", "k2"}
TagValueSet == {"", "a"}

\* A tag is a record with a Key and, unless the value is missing, a Value.
Tag(k, v) == [Key |-> k, Value |-> v]
TagNoValue(k) == [Key |-> k]
LiveTags == {s \in SeqsUpTo({Tag(k, v) : k \in TagKeySet, v \in TagValueSet},
                            Cardinality(TagKeySet)) :
                \A i, j \in DOMAIN s : i # j => s[i].Key # s[j].Key}
TemplateTags ==
    {s \in SeqsUpTo({Tag(k, v) : k \in TagKeySet, v \in TagValueSet}
                      \cup {TagNoValue(k) : k \in TagKeySet},
                    Cardinality(TagKeySet)) :
        \A i, j \in DOMAIN s : i # j => s[i].Key # s[j].Key}

\* tag.get("Value", default)
TagGet(tag, default) == IF "Value" \in DOMAIN tag THEN tag.Value ELSE default

\* {tag["Key"]: tag.get("Value") for tag in tags}.get(key, default): the value
\* of the last tag with that key (None, here NoneValue, when it has no Value)
NoneValue == "None"
TagMapKeys(tags) == {tags[i].Key : i \in DOMAIN tags}
TagMapGet(tags, key, default) ==
    IF key \in TagMapKeys(tags)
    THEN LET last == CHOOSE i \in DOMAIN tags :
                        /\ tags[i].Key = key
                        /\ \A j \in DOMAIN tags : tags[j].Key = key => j <= i
         IN  TagGet(tags[last], NoneValue)
    ELSE default

TagsToApply(template_tags, existing_tags) ==
    SelectSeq(template_tags,
              LAMBDA tag : TagGet(tag, "") # TagMapGet(existing_tags, tag.Key, ""))

\* Every key the role has, as if the tags were removed and set again.
TagsToRemoveEveryKey(template_tags, existing_tags) ==
    [i \in DOMAIN existing_tags |-> existing_tags[i].Key]

TagsToRemove(template_tags, existing_tags) ==
    LET stale(tag) == IF tag.Key \notin TagMapKeys(template_tags)
                      THEN <<tag.Key>> ELSE <<>>
    IN  FlatMap(stale, existing_tags)

TagsResponse(template_tags, existing_tags) ==
    LET remove == TagsToRemove(template_tags, existing_tags)
        apply  == TagsToApply(template_tags, existing_tags)
        attach(tag) == <<ProposedChange("ATTACH", "tags", "", None, Some(tag), None)>>
    IN  (IF remove # <<>>
         THEN <<ProposedChange("DETACH", "tags", "", None, None, remove)>>
         ELSE <<>>)
        \o FlatMap(attach, apply)

TagsTasksAlways(template_tags, existing_tags, execute) ==
    LET remove == TagsToRemove(template_tags, existing_tags)
        apply  == TagsToApply(template_tags, existing_tags)
    IN  (IF remove # <<>> THEN <<Call("untag_role", "", remove)>> ELSE <<>>)
        \o (IF apply # <<>> THEN <<Call("tag_role", "", apply)>> ELSE <<>>)

TagsTasks(template_tags, existing_tags, execute) ==
    LET remove == TagsToRemove(template_tags, existing_tags)
        apply  == TagsToApply(template_tags, existing_tags)
    IN  (IF remove # <<>> /\ execute
         THEN <<Call("untag_role", "", remove)>> ELSE <<>>)
        \o (IF apply # <<>> /\ execute
            THEN <<Call("tag_role", "", apply)>> ELSE <<>>)

\* The provider's tag_role and untag_role on the role's tag list.
UntagRole(tags, keys) == SelectSeq(tags, LAMBDA tag : tag.Key \notin Range(keys))

RECURSIVE TagRole(_, _)
TagRole(tags, new) ==
    IF new = <<>> THEN tags
    ELSE LET t == Head(new)
             put == IF t.Key \in TagMapKeys(tags)
                    THEN [i \in DOMAIN tags |->
                            IF tags[i].Key = t.Key THEN t ELSE tags[i]]
                    ELSE Append(tags, t)
         IN  TagRole(put, Tail(new))

(***************************************************************************)
(* Policy documents and DeepDiff(ignore_order=True, report_repetition=True)*)
(***************************************************************************)
StatementSet == {"s1", "s2"}
StatementOrder == <<"s1", "s2">>
StatementLists == SeqsUpTo(StatementSet, MaxStatements)

\* A document is the set of its keys and the value of its Statement key; the
\* document without keys is the empty dict.
Doc(stmts) == [keys |-> {"Statement"}, Statement |-> stmts]
EmptyDoc == [keys |-> {}, Statement |-> <<>>]
TemplateDocs == {EmptyDoc} \cup {Doc(s) : s \in StatementLists}
ProviderDocs == {Doc(s) : s \in StatementLists \ {<<>>}}

\* bool(document) of a dict
DocTruthy(doc) == doc.keys # {}

\* The comparison with ignore_order=False: items are compared position by
\* position.
DeepDiffOrdered(t1, t2) ==
    LET both == "Statement" \in t1.keys /\ "Statement" \in t2.keys
        a == IF both THEN t1.Statement ELSE <<>>
        b == IF both THEN t2.Statement ELSE <<>>
        differs(x, y, i) == i \notin DOMAIN y \/ x[i] # y[i]
    IN  [dictionary_item_added   |-> t2.keys \ t1.keys,
         dictionary_item_removed |-> t1.keys \ t2.keys,
         iterable_item_added     |-> {b[i] : i \in {j \in DOMAIN b : differs(b, a, j)}},
         iterable_item_removed   |-> {a[i] : i \in {j \in DOMAIN a : differs(a, b, j)}},
         repetition_change       |-> {}]

DeepDiff(t1, t2) ==
    LET both == "Statement" \in t1.keys /\ "Statement" \in t2.keys
        a == IF both THEN t1.Statement ELSE <<>>
        b == IF both THEN t2.Statement ELSE <<>>
    IN  [dictionary_item_added   |-> t2.keys \ t1.keys,
         dictionary_item_removed |-> t1.keys \ t2.keys,
         iterable_item_added     |-> Range(b) \ Range(a),
         iterable_item_removed   |-> Range(a) \ Range(b),
         repetition_change       |->
             {x \in Range(a) \cap Range(b) : Count(a, x) # Count(b, x)}]

\* json.loads(policy_drift.to_json()): every category becomes a JSON array
SetToList(S) == SelectSeq(StatementOrder \o <<"Statement">>, LAMBDA x : x \in S)
DriftToJson(d) ==
    [dictionary_item_added   |-> SetToList(d.dictionary_item_added),
     dictionary_item_removed |-> SetToList(d.dictionary_item_removed),
     iterable_item_added     |-> SetToList(d.iterable_item_added),
     iterable_item_removed   |-> SetToList(d.iterable_item_removed),
     repetition_change       |-> SetToList(d.repetition_change)]

\* bool(policy_drift): DeepDiff leaves out the categories without entries
DriftTruthy(j) ==
    \/ j.dictionary_item_added # <<>>
    \/ j.dictionary_item_removed # <<>>
    \/ j.iterable_item_added # <<>>
    \/ j.iterable_item_removed # <<>>
    \/ j.repetition_change # <<>>

PolicyDrift(existing_doc, template_doc) ==
    DriftToJson(DeepDiff(existing_doc, template_doc))

(***************************************************************************)
(* update_assume_role_policy                                               *)
(***************************************************************************)
\* existing_policy_document as the caller hands it over: nothing, the JSON
\* text of a document, or the parsed document.
NoDocument == [kind |-> "none", doc |-> EmptyDoc]
JsonText(doc) == [kind |-> "str", doc |-> doc]
Parsed(doc) == [kind |-> "dict", doc |-> doc]

\* bool(existing_policy_document): a JSON text is never the empty string
ExistingTruthy(e) ==
    CASE e.kind = "none" -> FALSE
      [] e.kind = "str"  -> TRUE
      [] e.kind = "dict" -> DocTruthy(e.doc)

\* json.loads on a str, the value itself otherwise
JsonLoads(e) == IF e.kind = "str" THEN Parsed(e.doc) ELSE e

\* existing_policy_document after lines 195-197
ExistingLoaded(e) == IF ExistingTruthy(e) THEN JsonLoads(e) ELSE e

AssumeDrift(template_doc, e) ==
    IF ExistingTruthy(e)
    THEN Some(PolicyDrift(ExistingLoaded(e).doc, template_doc))
    ELSE None

\* Line 212 without its `not existing_policy_document` disjunct.
AssumeChangedOnDriftOnly(template_doc, e) ==
    /\ AssumeDrift(template_doc, e) # None
    /\ DriftTruthy(AssumeDrift(template_doc, e)[1])

AssumeChanged(template_doc, e) ==
    \/ ~ExistingTruthy(ExistingLoaded(e))
    \/ (AssumeDrift(template_doc, e) # None
        /\ DriftTruthy(AssumeDrift(template_doc, e)[1]))

AssumeResponse(template_doc, e) ==
    LET drift == AssumeDrift(template_doc, e)
    IN  IF ~AssumeChanged(template_doc, e) THEN <<>>
        ELSE IF drift # None /\ DriftTruthy(drift[1])
        THEN <<ProposedChange("UPDATE", "assume_role_policy_document", "",
                              Some(ExistingLoaded(e).doc), Some(template_doc),
                              drift)>>
        ELSE <<ProposedChange("CREATE", "assume_role_policy_document", "",
                              None, Some(template_doc), None)>>

AssumeTasks(template_doc, e, execute) ==
    IF AssumeChanged(template_doc, e) /\ execute
    THEN <<Call("update_assume_role_policy", "", template_doc)>>
    ELSE <<>>

(***************************************************************************)
(* apply_role_managed_policies                                             *)
(***************************************************************************)
PolicyArnSet == {"p1", "p2"}
TemplateArnLists == {s \in SeqsUpTo(PolicyArnSet, Cardinality(PolicyArnSet)) : NoDup(s)}
LiveArnLists == {s \in SeqsUpTo(PolicyArnSet, Cardinality(PolicyArnSet)) : NoDup(s)}

NewManagedPolicies(template_policies, existing_policies) ==
    SelectSeq(template_policies, LAMBDA arn : arn \notin Range(existing_policies))

StaleManagedPolicies(template_policies, existing_policies) ==
    SelectSeq(existing_policies, LAMBDA arn : arn \notin Range(template_policies))

ManagedResponse(template_policies, existing_policies) ==
    LET attach(arn) == <<ProposedChange("ATTACH", "managed_policies", arn,
                                        None, None, None)>>
        detach(arn) == <<ProposedChange("DETACH", "managed_policies", arn,
                                        None, None, None)>>
    IN  FlatMap(attach, NewManagedPolicies(template_policies, existing_policies))
        \o FlatMap(detach, StaleManagedPolicies(template_policies, existing_policies))

ManagedTasks(template_policies, existing_policies, execute) ==
    LET attach(arn) == <<Call("attach_role_policy", arn, None)>>
        detach(arn) == <<Call("detach_role_policy", arn, None)>>
    IN  IF execute
        THEN FlatMap(attach, NewManagedPolicies(template_policies, existing_policies))
             \o FlatMap(detach, StaleManagedPolicies(template_policies, existing_policies))
        ELSE <<>>

AttachRolePolicy(arns, arn) == IF arn \in Range(arns) THEN arns ELSE Append(arns, arn)
DetachRolePolicy(arns, arn) == SelectSeq(arns, LAMBDA a : a # arn)

(***************************************************************************)
(* apply_role_inline_policies                                              *)
(***************************************************************************)
PolicyNameSet == {"n1", "n2"}
PolicyNameOrder == <<"n1", "n2">>
Policy(name, doc) == [PolicyName |-> name, doc |-> doc]
UniqueNames(s) == \A i, j \in DOMAIN s : i # j => s[i].PolicyName # s[j].PolicyName

\* Statement lists of the inline policies: one statement, two in either order,
\* one repeated.
InlineStatementLists == {<<"s1">>, <<"s1", "s2">>, <<"s2", "s1">>, <<"s1", "s1">>}
InlineTemplateDocs == {EmptyDoc} \cup {Doc(s) : s \in InlineStatementLists}
InlineProviderDocs == {Doc(s) : s \in InlineStatementLists}

TemplateInline ==
    {s \in SeqsUpTo({Policy(n, d) : n \in PolicyNameSet, d \in InlineTemplateDocs},
                    Cardinality(PolicyNameSet)) : UniqueNames(s)}
\* what get_role_inline_policies lists for the role
LiveInline ==
    {s \in SeqsUpTo({Policy(n, d) : n \in PolicyNameSet, d \in InlineProviderDocs},
                    Cardinality(PolicyNameSet)) :
        \A i, j \in DOMAIN s :
            i < j => \E a, b \in DOMAIN PolicyNameOrder :
                        /\ a < b
                        /\ PolicyNameOrder[a] = s[i].PolicyName
                        /\ PolicyNameOrder[b] = s[j].PolicyName}

\* {policy["PolicyName"]: {the other keys} for policy in policies}: its keys in
\* insertion order and its .get(name)
PolicyMapKeys(policies) ==
    LET first(i) == \A j \in DOMAIN policies :
                        policies[j].PolicyName = policies[i].PolicyName => i <= j
        idx == SelectSeq([i \in DOMAIN policies |-> i], first)
    IN  [k \in DOMAIN idx |-> policies[idx[k]].PolicyName]

PolicyMapGet(policies, name) ==
    IF \E i \in DOMAIN policies : policies[i].PolicyName = name
    THEN LET last == CHOOSE i \in DOMAIN policies :
                        /\ policies[i].PolicyName = name
                        /\ \A j \in DOMAIN policies :
                               policies[j].PolicyName = name => j <= i
         IN  Some(policies[last].doc)
    ELSE None

\* bool(map.get(name)): there and not the empty dict
PolicyTruthy(opt) == opt # None /\ DocTruthy(opt[1])

StaleInline(template_policies, existing_policies) ==
    SelectSeq(PolicyMapKeys(existing_policies),
              LAMBDA name : ~PolicyTruthy(PolicyMapGet(template_policies, name)))

InlineDrift(template_policies, existing_policies, name) ==
    LET existing_policy_doc == PolicyMapGet(existing_policies, name)
    IN  IF PolicyTruthy(existing_policy_doc)
        THEN Some(PolicyDrift(existing_policy_doc[1],
                              PolicyMapGet(template_policies, name)[1]))
        ELSE None

InlineHasDrift(template_policies, existing_policies, name) ==
    LET d == InlineDrift(template_policies, existing_policies, name)
    IN  d # None /\ DriftTruthy(d[1])

\* line 380: not existing_policy_doc or policy_drift
InlineChanged(template_policies, existing_policies, name) ==
    \/ ~PolicyTruthy(PolicyMapGet(existing_policies, name))
    \/ InlineHasDrift(template_policies, existing_policies, name)

InlineDeleteRecords(template_policies, existing_policies, execute) ==
    LET delete(name) ==
            IF execute
            THEN <<ProposedChange("DELETE", "inline_policies", name, None, None, None)>>
            ELSE <<>>
    IN  FlatMap(delete, StaleInline(template_policies, existing_policies))

InlinePutRecords(template_policies, existing_policies) ==
    LET put(name) ==
            LET doc == PolicyMapGet(template_policies, name)[1]
            IN  IF ~InlineChanged(template_policies, existing_policies, name) THEN <<>>
                ELSE IF InlineHasDrift(template_policies, existing_policies, name)
                THEN <<ProposedChange("UPDATE", "inline_policies", name,
                                      PolicyMapGet(existing_policies, name), Some(doc),
                                      InlineDrift(template_policies, existing_policies, name))>>
                ELSE <<ProposedChange("CREATE", "inline_policies", name,
                                      None, Some(doc), None)>>
    IN  FlatMap(put, PolicyMapKeys(template_policies))

InlineResponse(template_policies, existing_policies, execute) ==
    InlineDeleteRecords(template_policies, existing_policies, execute)
    \o InlinePutRecords(template_policies, existing_policies)

InlineTasks(template_policies, existing_policies, execute) ==
    LET delete(name) == IF execute
                        THEN <<Call("delete_role_policy", name, None)>>
                        ELSE <<>>
        put(name) ==
            LET doc == PolicyMapGet(template_policies, name)[1]
            IN  IF /\ InlineChanged(template_policies, existing_policies, name)
                   /\ execute
                   /\ DocTruthy(doc)
                THEN <<Call("put_role_policy", name, doc)>>
                ELSE <<>>
    IN  FlatMap(delete, StaleInline(template_policies, existing_policies))
        \o FlatMap(put, PolicyMapKeys(template_policies))

\* line 382: log_params["policy_drift"] = policy_drift, for each policy with drift
RECURSIVE InlineLogParams(_, _, _, _)
InlineLogParams(params, names, template_policies, existing_policies) ==
    IF names = <<>> THEN params
    ELSE LET name == Head(names)
             next == IF InlineHasDrift(template_policies, existing_policies, name)
                     THEN [k \in DOMAIN params \cup {"policy_drift"} |->
                             IF k = "policy_drift"
                             THEN InlineDrift(template_policies, existing_policies, name)
                             ELSE params[k]]
                     ELSE params
         IN  InlineLogParams(next, Tail(names), template_policies, existing_policies)

\* The provider lists a role's inline policies by name.
ListInline(S) ==
    LET one(name) == IF \E p \in S : p.PolicyName = name
                     THEN <<CHOOSE p \in S : p.PolicyName = name>>
                     ELSE <<>>
    IN  FlatMap(one, PolicyNameOrder)
DeleteRolePolicy(policies, name) ==
    SelectSeq(policies, LAMBDA p : p.PolicyName # name)
PutRolePolicy(policies, name, doc) ==
    ListInline(Range(DeleteRolePolicy(policies, name)) \cup {Policy(name, doc)})

(***************************************************************************)
(* okta/app/utils.py: update_app_assignments, update_app_name,             *)
(* maybe_delete_app                                                        *)
(***************************************************************************)
UserSet == {"u1", "u2"}
GroupSet == {"g1"}
AppNameSet == {"app_a", "app_b"}

\* Assignment(user=...) / Assignment(group=...); "" stands for None
UserAssignment(u) == [user |-> u, group |-> ""]
GroupAssignment(g) == [user |-> "", group |-> g]
AssignmentLists ==
    {s \in SeqsUpTo({UserAssignment(u) : u \in UserSet}
                      \cup {GroupAssignment(g) : g \in GroupSet},
                    Cardinality(UserSet) + Cardinality(GroupSet)) : NoDup(s)}

\* The app at the provider; get_app and list_all_apps build app.assignments
\* from it, user assignments first.
App(name, users, groups) ==
    [name |-> name, users |-> users, groups |-> groups, deleted |-> FALSE]
LiveApps ==
    {App(n, u, g) : n \in AppNameSet,
                    u \in {s \in SeqsUpTo(UserSet, Cardinality(UserSet)) : NoDup(s)},
                    g \in {s \in SeqsUpTo(GroupSet, Cardinality(GroupSet)) : NoDup(s)}}
AppAssignments(app) ==
    [i \in DOMAIN app.users |-> UserAssignment(app.users[i])]
    \o [i \in DOMAIN app.groups |-> GroupAssignment(app.groups[i])]

\* [assignment.user for assignment in assignments if assignment.user]
UsersOf(assignments) ==
    LET one(a) == IF a.user # "" THEN <<a.user>> ELSE <<>>
    IN  FlatMap(one, assignments)
GroupsOf(assignments) ==
    LET one(a) == IF a.group # "" THEN <<a.group>> ELSE <<>>
    IN  FlatMap(one, assignments)

\* [x for x in xs if x not in ys]
NotIn(xs, ys) == SelectSeq(xs, LAMBDA x : x \notin Range(ys))

UsersToUnassign(assignments, new_assignments) ==
    NotIn(UsersOf(assignments), UsersOf(new_assignments))
UsersToAssign(assignments, new_assignments) ==
    NotIn(UsersOf(new_assignments), UsersOf(assignments))
GroupsToUnassign(assignments, new_assignments) ==
    NotIn(GroupsOf(assignments), GroupsOf(new_assignments))
GroupsToAssign(assignments, new_assignments) ==
    NotIn(GroupsOf(new_assignments), GroupsOf(assignments))

\* The records in the other order: ATTACH before DETACH.
AssignmentsResponseAttachFirst(assignments, new_assignments) ==
    LET uu == UsersToUnassign(assignments, new_assignments)
        gu == GroupsToUnassign(assignments, new_assignments)
        ua == UsersToAssign(assignments, new_assignments)
        ga == GroupsToAssign(assignments, new_assignments)
    IN  (IF ua # <<>> \/ ga # <<>>
         THEN <<ProposedChange("ATTACH", "assignments", "app", None, None,
                               Some([users |-> ua, groups |-> ga]))>>
         ELSE <<>>)
        \o (IF uu # <<>> \/ gu # <<>>
            THEN <<ProposedChange("DETACH", "assignments", "app", None, None,
                                  Some([users |-> uu, groups |-> gu]))>>
            ELSE <<>>)

AssignmentsResponse(assignments, new_assignments) ==
    LET uu == UsersToUnassign(assignments, new_assignments)
        gu == GroupsToUnassign(assignments, new_assignments)
        ua == UsersToAssign(assignments, new_assignments)
        ga == GroupsToAssign(assignments, new_assignments)
    IN  (IF uu # <<>> \/ gu # <<>>
         THEN <<ProposedChange("DETACH", "assignments", "app", None, None,
                               Some([users |-> uu, groups |-> gu]))>>
         ELSE <<>>)
        \o (IF ua # <<>> \/ ga # <<>>
            THEN <<ProposedChange("ATTACH", "assignments", "app", None, None,
                                  Some([users |-> ua, groups |-> ga]))>>
            ELSE <<>>)

\* The loops of lines 261-331 in order: one step per assignment.
AssignmentSteps(assignments, new_assignments, execute) ==
    LET au(who) == <<Call("assign_user_to_application", who, None)>>
        ag(who) == <<Call("create_application_group_assignment", who, None)>>
        du(who) == <<Call("delete_application_user", who, None)>>
        dg(who) == <<Call("delete_application_group_assignment", who, None)>>
    IN  IF execute
        THEN FlatMap(au, UsersToAssign(assignments, new_assignments))
             \o FlatMap(ag, GroupsToAssign(assignments, new_assignments))
             \o FlatMap(du, UsersToUnassign(assignments, new_assignments))
             \o FlatMap(dg, GroupsToUnassign(assignments, new_assignments))
        ELSE <<>>

\* A provider operation that answers with an error: the lookup of a user or
\* group (get_user, get_group) or the mutating call on it.
Fault(kind, who) == [kind |-> kind, who |-> who]

OktaEffect(app, call) ==
    CASE call.op = "assign_user_to_application" ->
            [app EXCEPT !.users = IF call.key \in Range(@) THEN @
                                  ELSE Append(@, call.key)]
      [] call.op = "create_application_group_assignment" ->
            [app EXCEPT !.groups = IF call.key \in Range(@) THEN @
                                   ELSE Append(@, call.key)]
      [] call.op = "delete_application_user" ->
            [app EXCEPT !.users = SelectSeq(@, LAMBDA u : u # call.key)]
      [] call.op = "delete_application_group_assignment" ->
            [app EXCEPT !.groups = SelectSeq(@, LAMBDA g : g # call.key)]
      [] call.op = "update_application" -> [app EXCEPT !.name = call.payload]
      [] call.op = "delete_app" -> [app EXCEPT !.deleted = TRUE]

\* Runs the steps one after the other.  A failed lookup is logged and the loop
\* continues; a failed mutating call reaches a log.error whose argument
\* (assignment.user, assignment.group, assignment.oup on a str) raises.
RECURSIVE RunAssignmentSteps(_, _, _, _)
RunAssignmentSteps(app, steps, done, fs) ==
    IF steps = <<>> THEN [live |-> app, calls |-> done, raised |-> FALSE]
    ELSE LET c == Head(steps)
         IN  IF Fault("lookup", c.key) \in fs
             THEN RunAssignmentSteps(app, Tail(steps), done, fs)
             ELSE IF Fault("call", c.key) \in fs
             THEN [live |-> app, calls |-> Append(done, c), raised |-> TRUE]
             ELSE RunAssignmentSteps(OktaEffect(app, c), Tail(steps),
                                     Append(done, c), fs)

AppNameResponse(app, new_name) ==
    IF app.name = new_name THEN <<>>
    ELSE <<ProposedChange("UPDATE", "app_name", "app", None, Some(new_name), None)>>

AppNameTasks(app, new_name, execute) ==
    IF app.name # new_name /\ execute
    THEN <<Call("update_application", "app", new_name)>>
    ELSE <<>>

DeleteAppResponse(app, delete) ==
    IF ~delete THEN <<>>
    ELSE <<ProposedChange("DELETE", "app", "app", None, None, Some(app.name))>>

\* The delete call without the test of context.execute at line 402.
DeleteAppTasksInBothModes(app, delete, execute) ==
    IF delete THEN <<Call("delete_app", "app", None)>> ELSE <<>>

DeleteAppTasks(app, delete, execute) ==
    IF delete /\ execute THEN <<Call("delete_app", "app", None)>> ELSE <<>>

(***************************************************************************)
(* The provider behind boto_crud_call, and asyncio.gather over the tasks   *)
(***************************************************************************)
RoleEffect(state, call) ==
    CASE call.op = "untag_role" -> UntagRole(state, call.payload)
      [] call.op = "tag_role" -> TagRole(state, call.payload)
      [] call.op = "update_assume_role_policy" -> Some(call.payload)
      [] call.op = "attach_role_policy" -> AttachRolePolicy(state, call.key)
      [] call.op = "detach_role_policy" -> DetachRolePolicy(state, call.key)
      [] call.op = "delete_role_policy" -> DeleteRolePolicy(state, call.key)
      [] call.op = "put_role_policy" -> PutRolePolicy(state, call.key, call.payload)

\* Requests the provider cannot accept: a tag without Value, a trust policy
\* that is the empty document.  boto_crud_call raises for them.
ProviderRejects(call) ==
    \/ call.op = "tag_role"
       /\ \E i \in DOMAIN call.payload : "Value" \notin DOMAIN call.payload[i]
    \/ call.op = "update_assume_role_policy" /\ ~DocTruthy(call.payload)

RECURSIVE ApplyCalls(_, _)
ApplyCalls(state, calls) ==
    IF calls = <<>> THEN state
    ELSE ApplyCalls(RoleEffect(state, Head(calls)), Tail(calls))

\* await asyncio.gather(*tasks): the accepted calls take effect in the order
\* in which they complete; a refused one makes gather raise.
Gather(state, calls) ==
    LET accepted == SelectSeq(calls, LAMBDA c : ~ProviderRejects(c))
    IN  {[live |-> ApplyCalls(state, [i \in DOMAIN accepted |-> accepted[p[i]]]),
          raised |-> accepted # calls] : p \in Perms(Len(accepted))}

PassRecord(execute, existing, response, calls, raised) ==
    [execute |-> execute, existing |-> existing, response |-> response,
     calls |-> calls, raised |-> raised, before |-> live,
     log_before |-> log_params]

(***************************************************************************)
(* The aspect operations                                                   *)
(***************************************************************************)
ApplyRoleTags(execute) ==
    /\ aspect = "tags"
    /\ Len(passes) < MaxPasses
    /\ \E out \in Gather(live, TagsTasks(template, live, execute)) :
          /\ live' = out.live
          /\ passes' = Append(passes,
                 PassRecord(execute, live, TagsResponse(template, live),
                            TagsTasks(template, live, execute), out.raised))
    /\ UNCHANGED <<aspect, template, faults, log_params>>
    /\ UNCHANGED <<deleteVars, driverVars, fetchVars, getAppVars, mergeVars, validateVars, scopeVars, listAppsVars>>

\* The forms in which the caller may hand over the role's trust policy.
ExistingForms(state) ==
    IF state = None THEN {NoDocument, Parsed(EmptyDoc)}
    ELSE {JsonText(state[1]), Parsed(state[1])}

UpdateAssumeRolePolicy(execute) ==
    /\ aspect = "assume"
    /\ Len(passes) < MaxPasses
    /\ \E e \in ExistingForms(live) :
       \E out \in Gather(live, AssumeTasks(template, e, execute)) :
          /\ live' = out.live
          /\ passes' = Append(passes,
                 PassRecord(execute, e, AssumeResponse(template, e),
                            AssumeTasks(template, e, execute), out.raised))
    /\ UNCHANGED <<aspect, template, faults, log_params>>
    /\ UNCHANGED <<deleteVars, driverVars, fetchVars, getAppVars, mergeVars, validateVars, scopeVars, listAppsVars>>

ApplyRoleManagedPolicies(execute) ==
    /\ aspect = "managed"
    /\ Len(passes) < MaxPasses
    /\ \E out \in Gather(live, ManagedTasks(template, live, execute)) :
          /\ live' = out.live
          /\ passes' = Append(passes,
                 PassRecord(execute, live, ManagedResponse(template, live),
                            ManagedTasks(template, live, execute), out.raised))
    /\ UNCHANGED <<aspect, template, faults, log_params>>
    /\ UNCHANGED <<deleteVars, driverVars, fetchVars, getAppVars, mergeVars, validateVars, scopeVars, listAppsVars>>

ApplyRoleInlinePolicies(execute) ==
    /\ aspect = "inline"
    /\ Len(passes) < MaxPasses
    /\ \E out \in Gather(live, InlineTasks(template, live, execute)) :
          /\ live' = out.live
          /\ passes' = Append(passes,
                 PassRecord(execute, live, InlineResponse(template, live, execute),
                            InlineTasks(template, live, execute), out.raised))
    /\ log_params' = InlineLogParams(log_params, PolicyMapKeys(template),
                                     template, live)
    /\ UNCHANGED <<aspect, template, faults>>
    /\ UNCHANGED <<deleteVars, driverVars, fetchVars, getAppVars, mergeVars, validateVars, scopeVars, listAppsVars>>

UpdateAppAssignments(execute) ==
    /\ aspect = "assignments"
    /\ Len(passes) < MaxPasses
    /\ LET existing == AppAssignments(live)
           out == RunAssignmentSteps(live,
                      AssignmentSteps(existing, template, execute), <<>>, faults)
       IN  /\ live' = out.live
           /\ passes' = Append(passes,
                  PassRecord(execute, existing,
                             AssignmentsResponse(existing, template),
                             out.calls, out.raised))
    /\ UNCHANGED <<aspect, template, faults, log_params>>
    /\ UNCHANGED <<deleteVars, driverVars, fetchVars, getAppVars, mergeVars, validateVars, scopeVars, listAppsVars>>

\* One awaited client call of update_app_name / maybe_delete_app; an error
\* answer is raised to the caller.
RunAppCall(app, calls, fs) ==
    IF calls = <<>> THEN [live |-> app, raised |-> FALSE]
    ELSE IF Fault("call", calls[1].key) \in fs \/ app.deleted
    THEN [live |-> app, raised |-> TRUE]
    ELSE [live |-> OktaEffect(app, calls[1]), raised |-> FALSE]

UpdateAppName(execute) ==
    /\ aspect = "app_name"
    /\ Len(passes) < MaxPasses
    /\ LET out == RunAppCall(live, AppNameTasks(live, template, execute), faults)
       IN  /\ live' = out.live
           /\ passes' = Append(passes,
                  PassRecord(execute, live.name, AppNameResponse(live, template),
                             AppNameTasks(live, template, execute), out.raised))
    /\ UNCHANGED <<aspect, template, faults, log_params>>
    /\ UNCHANGED <<deleteVars, driverVars, fetchVars, getAppVars, mergeVars, validateVars, scopeVars, listAppsVars>>

MaybeDeleteApp(execute) ==
    /\ aspect = "delete_app"
    /\ Len(passes) < MaxPasses
    /\ LET out == RunAppCall(live, DeleteAppTasks(live, template, execute), faults)
       IN  /\ live' = out.live
           /\ passes' = Append(passes,
                  PassRecord(execute, live.name, DeleteAppResponse(live, template),
                             DeleteAppTasks(live, template, execute), out.raised))
    /\ UNCHANGED <<aspect, template, faults, log_params>>
    /\ UNCHANGED <<deleteVars, driverVars, fetchVars, getAppVars, mergeVars, validateVars, scopeVars, listAppsVars>>

(***************************************************************************)
(* Idle values of the parts a specification does not exercise              *)
(***************************************************************************)
IdleAspects ==
    /\ aspect = "none" /\ template = None /\ live = None /\ faults = {}
    /\ log_params = None /\ passes = <<>>
IdleDelete ==
    /\ dpc = "idle" /\ role0 = None /\ role = None /\ dfail = {}
    /\ tasks = None /\ issued = <<>>
IdleDriver ==
    /\ cmd = "none" /\ force = FALSE /\ templates = {} /\ drifted = {}
    /\ answer = FALSE /\ pc = "idle" /\ eval_only = FALSE
    /\ template_changes = <<>> /\ applyLog = <<>> /\ detectLog = <<>> /\ flips = 0
IdleFetch ==
    /\ aws_accounts = <<>> /\ outcome = None /\ fpc = "idle"
    /\ fetched = None /\ completed = <<>> /\ returned = None
IdleGetApp ==
    /\ gpc = "idle" /\ okta_app = None /\ attempt_number = 0
    /\ get_application_calls = 0 /\ got_app = None
IdleMerge ==
    /\ mpc = "idle" /\ new_model = None /\ existing_model = None
    /\ merged_model = None
IdleValidate ==
    /\ vpc = "idle" /\ field = "none" /\ raw_items = None /\ model_items = None
    /\ provider_calls = 0
IdleScope ==
    /\ tpc = "idle" /\ user_template = None /\ file_sys_template = None
    /\ touched = {} /\ file_before = None /\ deleted_account = None

IdleListApps ==
    /\ lpc = "idle" /\ pages = <<>> /\ raw_apps = <<>> /\ has_next = FALSE
    /\ list_calls = 0 /\ apps = <<>> /\ app_assignments = <<>>
    /\ finished = <<>> /\ apps_to_return = None

(***************************************************************************)
(* SpecAspects                                                             *)
(***************************************************************************)
FaultSets(S) == {fs \in SUBSET S : Cardinality(fs) <= MaxFaults}
AssignmentFaults ==
    {Fault(k, w) : k \in {"lookup", "call"}, w \in UserSet \cup GroupSet}

InitAspects ==
    /\ \/ aspect = "tags" /\ template \in TemplateTags /\ live \in LiveTags
          /\ faults = {}
       \/ aspect = "assume" /\ template \in TemplateDocs
          /\ live \in {None} \cup {Some(d) : d \in ProviderDocs}
          /\ faults = {}
       \/ aspect = "managed" /\ template \in TemplateArnLists
          /\ live \in LiveArnLists /\ faults = {}
       \/ aspect = "inline" /\ template \in TemplateInline /\ live \in LiveInline
          /\ faults = {}
       \/ aspect = "assignments" /\ template \in AssignmentLists
          /\ live \in LiveApps /\ faults \in FaultSets(AssignmentFaults)
       \/ aspect = "app_name" /\ template \in AppNameSet /\ live \in LiveApps
          /\ faults \in FaultSets({Fault("call", "app")})
       \/ aspect = "delete_app" /\ template \in BOOLEAN /\ live \in LiveApps
          /\ faults \in FaultSets({Fault("call", "app")})
    /\ log_params = [resource_id |-> "r"]
    /\ passes = <<>>
    /\ IdleDelete /\ IdleDriver /\ IdleFetch /\ IdleGetApp /\ IdleMerge /\ IdleValidate /\ IdleScope /\ IdleListApps

NextAspects ==
    \/ \E execute \in BOOLEAN : ApplyRoleTags(execute)
    \/ \E execute \in BOOLEAN : UpdateAssumeRolePolicy(execute)
    \/ \E execute \in BOOLEAN : ApplyRoleManagedPolicies(execute)
    \/ \E execute \in BOOLEAN : ApplyRoleInlinePolicies(execute)
    \/ \E execute \in BOOLEAN : UpdateAppAssignments(execute)
    \/ \E execute \in BOOLEAN : UpdateAppName(execute)
    \/ \E execute \in BOOLEAN : MaybeDeleteApp(execute)

SpecAspects == InitAspects /\ [][NextAspects]_vars

(***************************************************************************)
(* Claims about the aspect operations (SpecAspects)                        *)
(***************************************************************************)
RoleAspects == {"tags", "assume", "managed", "inline"}

\* The provider state after pass i.
LiveAfter(i) == IF i = Len(passes) THEN live ELSE passes[i + 1].before

\* C1: an aspect operation invoked with context.execute = false issues no
\* mutating provider call and leaves the live provider state as it was.
C1_PlanIssuesNoMutatingCall ==
    \A i \in DOMAIN passes :
        ~passes[i].execute =>
            /\ passes[i].calls = <<>>
            /\ LiveAfter(i) = passes[i].before

\* A plan pass that proposed changes has run.
C1_Witness ==
    \E i \in DOMAIN passes :
        /\ ~passes[i].execute
        /\ passes[i].response # <<>>

\* The mutating calls that a list of Change Records stands for.
ImpliedCalls(response) ==
    LET tagsOf(r) == IF r.attribute = "tags" /\ r.change_type = "ATTACH"
                     THEN r.new_value ELSE <<>>
        one(r) ==
            CASE r.attribute = "tags" /\ r.change_type = "DETACH" ->
                    {Call("untag_role", "", r.change_summary)}
              [] r.attribute = "tags" /\ r.change_type = "ATTACH" ->
                    {Call("tag_role", "", FlatMap(tagsOf, response))}
              [] r.attribute = "assume_role_policy_document" ->
                    {Call("update_assume_role_policy", "", r.new_value[1])}
              [] r.attribute = "managed_policies" /\ r.change_type = "ATTACH" ->
                    {Call("attach_role_policy", r.resource_id, None)}
              [] r.attribute = "managed_policies" /\ r.change_type = "DETACH" ->
                    {Call("detach_role_policy", r.resource_id, None)}
              [] r.attribute = "inline_policies" /\ r.change_type = "DELETE" ->
                    {Call("delete_role_policy", r.resource_id, None)}
              [] r.attribute = "inline_policies" /\ r.change_type # "DELETE" ->
                    {Call("put_role_policy", r.resource_id, r.new_value[1])}
    IN  UNION {one(response[i]) : i \in DOMAIN response}

\* A plan pass followed by an execute pass on the same input.
PlanThenExecute(i) ==
    /\ i \in DOMAIN passes /\ i + 1 \in DOMAIN passes
    /\ ~passes[i].execute /\ passes[i + 1].execute

\* C2: for every role aspect operation, the execute pass issues exactly the
\* mutating calls implied by the Change Records the plan pass reported on the
\* same input.
C2_ExecuteIssuesExactlyPlannedCalls ==
    aspect \in RoleAspects =>
        \A i \in DOMAIN passes :
            PlanThenExecute(i) =>
                Range(passes[i + 1].calls) = ImpliedCalls(passes[i].response)

\* The part of C2 the code keeps: tags, trust policy and managed policies.
C2_HoldsOutsideInline ==
    aspect \in RoleAspects \ {"inline"} =>
        \A i \in DOMAIN passes :
            PlanThenExecute(i) =>
                Range(passes[i + 1].calls) = ImpliedCalls(passes[i].response)

\* An execute pass in which every provider call succeeded, followed by another
\* execute pass.
TwoExecutePasses(i) ==
    /\ i \in DOMAIN passes /\ i + 1 \in DOMAIN passes
    /\ passes[i].execute /\ passes[i + 1].execute
    /\ ~passes[i].raised /\ faults = {}

\* C3: after an execute pass in which all provider calls succeed, a second
\* execute pass returns no Change Record and issues no mutating call (tags,
\* trust policy, managed policies, inline policies, app assignments).
C3_SecondExecuteIsEmpty ==
    aspect \in RoleAspects \cup {"assignments"} =>
        \A i \in DOMAIN passes :
            TwoExecutePasses(i) =>
                /\ passes[i + 1].response = <<>>
                /\ passes[i + 1].calls = <<>>

\* The part of C3 the code keeps: every aspect but the inline policies.
C3_HoldsOutsideInline ==
    aspect \in (RoleAspects \cup {"assignments"}) \ {"inline"} =>
        \A i \in DOMAIN passes :
            TwoExecutePasses(i) =>
                /\ passes[i + 1].response = <<>>
                /\ passes[i + 1].calls = <<>>

(***************************************************************************)
(* delete_iam_role                                                         *)
(***************************************************************************)
ProfileNames == [i \in 1..MaxDependents |-> <<"profile", i>>]
ManagedArns == [i \in 1..MaxDependents |-> <<"arn", i>>]
InlineNames == [i \in 1..MaxDependents |-> <<"policy", i>>]

DCall(op, key) == [op |-> op, key |-> key]
DeleteRoleCall == DCall("delete_role", <<"role", 0>>)

\* The role at the provider: the instance profiles it is in, the instance
\* profiles that exist, its attached managed policies, its inline policies.
Role(n, m, k) ==
    [in_profiles |-> {ProfileNames[i] : i \in 1..n},
     profiles    |-> {ProfileNames[i] : i \in 1..n},
     managed     |-> {ManagedArns[i] : i \in 1..m},
     inline      |-> {InlineNames[i] : i \in 1..k},
     exists      |-> TRUE]

HasDependents(r) == r.in_profiles # {} \/ r.managed # {} \/ r.inline # {}

DeleteEffect(r, c) ==
    CASE c.op = "remove_role_from_instance_profile" ->
            [r EXCEPT !.in_profiles = @ \ {c.key}]
      [] c.op = "delete_instance_profile" -> [r EXCEPT !.profiles = @ \ {c.key}]
      [] c.op = "detach_role_policy" -> [r EXCEPT !.managed = @ \ {c.key}]
      [] c.op = "delete_role_policy" -> [r EXCEPT !.inline = @ \ {c.key}]
      [] c.op = "delete_role" -> [r EXCEPT !.exists = FALSE]

\* The provider refuses the calls of dfail, and the deletion of a role that
\* still has dependents.
Refused(r, c) == c \in dfail \/ (c.op = "delete_role" /\ HasDependents(r))

\* The task lists of lines 430-438, 441-448 and 451-478.
RemoveTasks(profiles) ==
    LET one(i) == IF ProfileNames[i] \in profiles
                  THEN <<DCall("remove_role_from_instance_profile", ProfileNames[i])>>
                  ELSE <<>>
    IN  FlatMap(one, [i \in 1..MaxDependents |-> i])
DeleteProfileTasks(profiles) ==
    LET one(i) == IF ProfileNames[i] \in profiles
                  THEN <<DCall("delete_instance_profile", ProfileNames[i])>>
                  ELSE <<>>
    IN  FlatMap(one, [i \in 1..MaxDependents |-> i])
PolicyTasks(r) ==
    LET detach(i) == IF ManagedArns[i] \in r.managed
                     THEN <<DCall("detach_role_policy", ManagedArns[i])>> ELSE <<>>
        delete(i) == IF InlineNames[i] \in r.inline
                     THEN <<DCall("delete_role_policy", InlineNames[i])>> ELSE <<>>
    IN  FlatMap(detach, [i \in 1..MaxDependents |-> i])
        \o FlatMap(delete, [i \in 1..MaxDependents |-> i])

\* The calls of the gather the coroutine is waiting in.
Awaited ==
    CASE dpc = "gather_remove"   -> Range(RemoveTasks(role0.in_profiles))
      [] dpc = "gather_profiles" -> Range(DeleteProfileTasks(role0.in_profiles))
      [] dpc = "gather_policies" -> {c \in DOMAIN tasks :
                                        c.op \in {"detach_role_policy",
                                                  "delete_role_policy"}}
      [] dpc = "await_delete"    -> {DeleteRoleCall}
      [] OTHER -> {}

GatherReturnsEarly(cs) == \E c \in cs : tasks[c] = "ok"

\* asyncio.gather returns when every awaitable has a result
GatherReturns(cs) == \A c \in cs : tasks[c] = "ok"

\* A gather that swallows the exceptions of its awaitables.
GatherRaisesNever(cs) == FALSE

\* asyncio.gather raises as soon as one awaitable raises
GatherRaises(cs) == \E c \in cs : tasks[c] = "err"

\* Issue the calls of a task list: asyncio.gather schedules all of them.
Issue(cs) ==
    /\ tasks' = [c \in DOMAIN tasks \cup Range(cs) |->
                    IF c \in Range(cs) THEN "running" ELSE tasks[c]]
    /\ issued' = issued \o cs

DeleteStart ==
    /\ dpc = "start"
    /\ Issue(RemoveTasks(role0.in_profiles))
    /\ dpc' = "gather_remove"
    /\ UNCHANGED <<role0, role, dfail>>
    /\ UNCHANGED <<aspectVars, driverVars, fetchVars, getAppVars, mergeVars, validateVars, scopeVars, listAppsVars>>

\* A running call gets its answer from the provider.
Complete(c) ==
    /\ c \in DOMAIN tasks /\ tasks[c] = "running"
    /\ IF Refused(role, c)
       THEN tasks' = [tasks EXCEPT ![c] = "err"] /\ role' = role
       ELSE tasks' = [tasks EXCEPT ![c] = "ok"] /\ role' = DeleteEffect(role, c)
    /\ UNCHANGED <<dpc, role0, dfail, issued>>
    /\ UNCHANGED <<aspectVars, driverVars, fetchVars, getAppVars, mergeVars, validateVars, scopeVars, listAppsVars>>

RemoveDone ==
    /\ dpc = "gather_remove" /\ GatherReturns(Awaited)
    /\ Issue(DeleteProfileTasks(role0.in_profiles))
    /\ dpc' = "gather_profiles"
    /\ UNCHANGED <<role0, role, dfail>>
    /\ UNCHANGED <<aspectVars, driverVars, fetchVars, getAppVars, mergeVars, validateVars, scopeVars, listAppsVars>>

\* lines 451-481: the managed and inline policies are read from the provider
\* and their removals gathered
ProfilesDone ==
    /\ dpc = "gather_profiles" /\ GatherReturns(Awaited)
    /\ Issue(PolicyTasks(role))
    /\ dpc' = "gather_policies"
    /\ UNCHANGED <<role0, role, dfail>>
    /\ UNCHANGED <<aspectVars, driverVars, fetchVars, getAppVars, mergeVars, validateVars, scopeVars, listAppsVars>>

PoliciesDone ==
    /\ dpc = "gather_policies" /\ GatherReturns(Awaited)
    /\ Issue(<<DeleteRoleCall>>)
    /\ dpc' = "await_delete"
    /\ UNCHANGED <<role0, role, dfail>>
    /\ UNCHANGED <<aspectVars, driverVars, fetchVars, getAppVars, mergeVars, validateVars, scopeVars, listAppsVars>>

DeleteDone ==
    /\ dpc = "await_delete" /\ GatherReturns(Awaited)
    /\ dpc' = "done"
    /\ UNCHANGED <<role0, role, dfail, tasks, issued>>
    /\ UNCHANGED <<aspectVars, driverVars, fetchVars, getAppVars, mergeVars, validateVars, scopeVars, listAppsVars>>

\* The exception of a failed call propagates out of delete_iam_role; the
\* calls still running are not cancelled.
DeleteRaise ==
    /\ dpc \in {"gather_remove", "gather_profiles", "gather_policies", "await_delete"}
    /\ GatherRaises(Awaited)
    /\ dpc' = "raised"
    /\ UNCHANGED <<role0, role, dfail, tasks, issued>>
    /\ UNCHANGED <<aspectVars, driverVars, fetchVars, getAppVars, mergeVars, validateVars, scopeVars, listAppsVars>>

AllDeleteCalls ==
    Range(RemoveTasks(role0.in_profiles))
    \cup Range(DeleteProfileTasks(role0.in_profiles))
    \cup Range(PolicyTasks(role0)) \cup {DeleteRoleCall}

InitDelete ==
    /\ \E n, m, k \in 0..MaxDependents : role0 = Role(n, m, k)
    /\ role = role0
    /\ dfail \in {fs \in SUBSET AllDeleteCalls : Cardinality(fs) <= MaxFaults}
    /\ dpc = "start"
    /\ tasks = <<>>
    /\ issued = <<>>
    /\ IdleAspects /\ IdleDriver /\ IdleFetch /\ IdleGetApp /\ IdleMerge /\ IdleValidate /\ IdleScope /\ IdleListApps

NextDelete ==
    \/ DeleteStart
    \/ \E c \in AllDeleteCalls : Complete(c)
    \/ RemoveDone
    \/ ProfilesDone
    \/ PoliciesDone
    \/ DeleteDone
    \/ DeleteRaise

SpecDelete == InitDelete /\ [][NextDelete]_vars

\* The dependent removals delete_iam_role owes for the role it was given.
DependentCalls == AllDeleteCalls \ {DeleteRoleCall}

\* C4: delete_role is issued only after every remove_role_from_instance_profile,
\* delete_instance_profile, detach_role_policy and delete_role_policy call for
\* the role has completed; none is pending or yet to start at that point.
C4_DeleteRoleAfterAllDependents ==
    DeleteRoleCall \in Range(issued) =>
        /\ \A c \in DependentCalls : c \in DOMAIN tasks /\ tasks[c] = "ok"
        /\ \A i \in DOMAIN issued :
              issued[i] = DeleteRoleCall => i = Len(issued)
        /\ ~HasDependents(role)

\* delete_role issued for a role with instance profiles, managed and inline
\* policies.
C4_Witness ==
    /\ DeleteRoleCall \in Range(issued)
    /\ role0.in_profiles # {} /\ role0.managed # {} /\ role0.inline # {}
    /\ Cardinality(DependentCalls) = 2 * MaxDependents + 2 * MaxDependents

(***************************************************************************)
(* main.py: run_plan and run_apply                                         *)
(***************************************************************************)
\* gather_templates(repo_dir): every template file of the repository
RepoTemplates == [i \in 1..MaxTemplates |-> i]
\* the --template options of the command line, none when left out
CliTemplates == {s \in SeqsUpTo(1..MaxTemplates, MaxTemplates) :
                    \A i, j \in DOMAIN s : i < j => s[i] < s[j]}

\* lines 72-73 and 164-165
GatherTemplates(given) == IF given = <<>> THEN RepoTemplates ELSE given

\* apply_changes(config, templates, ctx): one non-empty report per template
\* whose live state differs from the template ...
ApplyChangesReport(ts, out_of_sync) == SelectSeq(ts, LAMBDA t : t \in out_of_sync)
\* ... and, in execute mode, those templates applied to the providers
ApplyChangesEffect(ts, out_of_sync, execute) ==
    IF execute THEN out_of_sync \ Range(ts) ELSE out_of_sync

\* line 79
PlanEvalOnly == TRUE
\* line 169: ctx.eval_only = not force
ApplyEvalOnlyNever(f) == FALSE
ApplyEvalOnly(f) == ~f

\* line 173: ctx.eval_only and template_changes and click.confirm("Proceed?")
ProceedUnconfirmed(eo, changes, confirm) == eo /\ changes # <<>>
Proceed(eo, changes, confirm) == eo /\ changes # <<>> /\ confirm

\* where run_apply goes after output_proposed_changes (lines 173-176)
AfterOutputDetectInside(eo, changes, confirm) ==
    IF Proceed(eo, changes, confirm) THEN "flip" ELSE "done"
AfterOutput(eo, changes, confirm) ==
    IF Proceed(eo, changes, confirm) THEN "flip" ELSE "detect"

Start ==
    /\ pc = "start"
    /\ templates' = GatherTemplates(templates)
    /\ pc' = "config"
    /\ UNCHANGED <<cmd, force, drifted, answer, eval_only, template_changes,
                   applyLog, detectLog, flips>>
    /\ UNCHANGED <<aspectVars, deleteVars, fetchVars, getAppVars, mergeVars, validateVars, scopeVars, listAppsVars>>

SetEvalOnly ==
    /\ pc = "config"
    /\ eval_only' = IF cmd = "plan" THEN PlanEvalOnly ELSE ApplyEvalOnly(force)
    /\ pc' = "apply"
    /\ UNCHANGED <<cmd, force, templates, drifted, answer, template_changes,
                   applyLog, detectLog, flips>>
    /\ UNCHANGED <<aspectVars, deleteVars, fetchVars, getAppVars, mergeVars, validateVars, scopeVars, listAppsVars>>

\* lines 80 and 170-171: the first apply_changes pass and its report
FirstApply ==
    /\ pc = "apply"
    /\ template_changes' = ApplyChangesReport(templates, drifted)
    /\ drifted' = ApplyChangesEffect(templates, drifted, Execute(eval_only))
    /\ applyLog' = Append(applyLog, [execute |-> Execute(eval_only),
                                     templates |-> templates])
    /\ pc' = IF cmd = "plan" THEN "done" ELSE "output"
    /\ UNCHANGED <<cmd, force, templates, answer, eval_only, detectLog, flips>>
    /\ UNCHANGED <<aspectVars, deleteVars, fetchVars, getAppVars, mergeVars, validateVars, scopeVars, listAppsVars>>

Decide ==
    /\ pc = "output"
    /\ pc' = AfterOutput(eval_only, template_changes, answer)
    /\ UNCHANGED <<cmd, force, templates, drifted, answer, eval_only,
                   template_changes, applyLog, detectLog, flips>>
    /\ UNCHANGED <<aspectVars, deleteVars, fetchVars, getAppVars, mergeVars, validateVars, scopeVars, listAppsVars>>

\* line 174
Flip ==
    /\ pc = "flip"
    /\ eval_only' = FALSE
    /\ flips' = IF eval_only' # eval_only THEN flips + 1 ELSE flips
    /\ pc' = "apply_again"
    /\ UNCHANGED <<cmd, force, templates, drifted, answer, template_changes,
                   applyLog, detectLog>>
    /\ UNCHANGED <<aspectVars, deleteVars, fetchVars, getAppVars, mergeVars, validateVars, scopeVars, listAppsVars>>

\* line 175: its result is dropped
SecondApply ==
    /\ pc = "apply_again"
    /\ drifted' = ApplyChangesEffect(templates, drifted, Execute(eval_only))
    /\ applyLog' = Append(applyLog, [execute |-> Execute(eval_only),
                                     templates |-> templates])
    /\ pc' = "detect"
    /\ UNCHANGED <<cmd, force, templates, answer, eval_only, template_changes,
                   detectLog, flips>>
    /\ UNCHANGED <<aspectVars, deleteVars, fetchVars, getAppVars, mergeVars, validateVars, scopeVars, listAppsVars>>

\* line 176: detect_changes(config); the context is as the passes left it
Detect ==
    /\ pc = "detect"
    /\ detectLog' = Append(detectLog, [eval_only |-> eval_only,
                                       passes |-> Len(applyLog)])
    /\ pc' = "done"
    /\ UNCHANGED <<cmd, force, templates, drifted, answer, eval_only,
                   template_changes, applyLog, flips>>
    /\ UNCHANGED <<aspectVars, deleteVars, fetchVars, getAppVars, mergeVars, validateVars, scopeVars, listAppsVars>>

InitDriver ==
    /\ \/ cmd = "plan" /\ force = FALSE
       \/ cmd = "apply" /\ force \in BOOLEAN
    /\ templates \in CliTemplates
    /\ drifted \in SUBSET (1..MaxTemplates)
    /\ answer \in BOOLEAN
    /\ eval_only \in BOOLEAN
    /\ pc = "start"
    /\ template_changes = <<>>
    /\ applyLog = <<>>
    /\ detectLog = <<>>
    /\ flips = 0
    /\ IdleAspects /\ IdleDelete /\ IdleFetch /\ IdleGetApp /\ IdleMerge /\ IdleValidate /\ IdleScope /\ IdleListApps

NextDriver ==
    \/ Start
    \/ SetEvalOnly
    \/ FirstApply
    \/ Decide
    \/ Flip
    \/ SecondApply
    \/ Detect

SpecDriver == InitDriver /\ [][NextDriver]_vars

ExecutePassRan == \E i \in DOMAIN applyLog : applyLog[i].execute

\* C5: in run_apply without --force, an execute pass over the same templates
\* happens if and only if the first pass returned changes and the operator
\* confirmed; otherwise no execute-mode pass ever runs.
C5_SecondPassIffConfirmed ==
    (cmd = "apply" /\ ~force) =>
        /\ \A i \in DOMAIN applyLog :
              applyLog[i].execute =>
                  /\ i = 2
                  /\ template_changes # <<>> /\ answer
                  /\ applyLog[2].templates = applyLog[1].templates
        /\ (pc \in {"detect", "done"} /\ template_changes # <<>> /\ answer) =>
              ExecutePassRan
        /\ Len(applyLog) <= 2

C5_Witness ==
    /\ cmd = "apply" /\ ~force /\ pc = "done"
    /\ Len(applyLog) = 2 /\ applyLog[2].execute /\ ~applyLog[1].execute

\* C6 as claimed: whatever the value of force, the first apply_changes pass of
\* run_apply runs with execute=false and an execute pass only comes after it.
C6_FirstPassAlwaysPlan ==
    cmd = "apply" =>
        \A i \in DOMAIN applyLog :
            /\ i = 1 => ~applyLog[i].execute
            /\ applyLog[i].execute => i > 1

\* C6 as amended: without --force the first apply_changes pass runs with
\* execute=false and an execute pass only comes after it; with --force the
\* first pass runs with execute=true and is the only pass.
C6_FirstPassPlanUnlessForced ==
    cmd = "apply" =>
        \A i \in DOMAIN applyLog :
            /\ i = 1 => applyLog[i].execute = force
            /\ ~force /\ applyLog[i].execute => i > 1 /\ ~applyLog[1].execute
            /\ force => i = 1

C6_Witness ==
    /\ cmd = "apply" /\ force /\ pc = "done"
    /\ Len(applyLog) = 1 /\ applyLog[1].execute /\ template_changes # <<>>

\* C7 as claimed: when detect_changes is invoked the execution context is in
\* plan mode, on every path.
C7_DetectInPlanMode ==
    \A i \in DOMAIN detectLog : detectLog[i].eval_only

\* C7 as amended: when detect_changes is invoked the execution context is in
\* plan mode exactly on the paths without --force where no change was proposed
\* or the operator declined; after --force or a confirmation it is in execute
\* mode, as the last apply_changes pass left it.
C7_DetectModeFollowsLastPass ==
    \A i \in DOMAIN detectLog :
        /\ detectLog[i].eval_only = (~force /\ ~(template_changes # <<>> /\ answer))
        /\ detectLog[i].eval_only = ~ExecutePassRan

C7_Witness ==
    /\ detectLog # <<>> /\ ~detectLog[1].eval_only
    /\ ~force /\ answer /\ Len(applyLog) = 2

\* C8: every run_apply invokes detect_changes exactly once, after its last
\* apply_changes pass; run_plan never invokes it.
C8_DetectOnceAfterLastPass ==
    /\ cmd = "plan" => detectLog = <<>>
    /\ cmd = "apply" =>
          /\ Len(detectLog) <= 1
          /\ pc = "done" => Len(detectLog) = 1
          /\ \A i \in DOMAIN detectLog :
                detectLog[i].passes = Len(applyLog) /\ detectLog[i].passes >= 1

C8_Witness ==
    /\ cmd = "apply" /\ pc = "done" /\ ~force /\ ~answer
    /\ template_changes # <<>> /\ Len(detectLog) = 1

\* C9: once the first apply_changes pass has run, the execution flag changes
\* at most once, only from plan to execute, only in run_apply after a plan
\* pass and the operator's confirmation; in run_plan every apply_changes call
\* observes plan mode.
C9_FlagFlipsOnceAfterConfirmation ==
    /\ [](cmd = "plan" => \A i \in DOMAIN applyLog : ~applyLog[i].execute)
    /\ [](flips <= 1)
    /\ [][(applyLog # <<>> /\ eval_only' # eval_only) =>
            /\ eval_only /\ ~eval_only'
            /\ cmd = "apply"
            /\ Len(applyLog) = 1 /\ ~applyLog[1].execute
            /\ template_changes # <<>> /\ answer
            /\ flips = 0]_vars

C9_Witness ==
    /\ cmd = "apply" /\ flips = 1 /\ ~eval_only /\ Len(applyLog) = 2

(***************************************************************************)
(* get_role_across_accounts                                                *)
(***************************************************************************)
AccountIds == 1..MaxAccounts
AccountLists == {s \in SeqsUpTo(AccountIds, MaxAccounts) : NoDup(s)}

\* What the provider answers for the role in an account: the role, that
\* there is no such role, or an error.
Answers == {"role", "absent", "error"}

\* get_role (lines 82-97): the role of that account, {} for
\* NoSuchEntityException; any other exception is not caught.
GetRole(account_id, ans) ==
    CASE ans = "role"   -> [raised |-> FALSE, role |-> <<"role", account_id>>]
      [] ans = "absent" -> [raised |-> FALSE, role |-> <<>>]
      [] ans = "error"  -> [raised |-> TRUE, role |-> <<>>]

\* get_role_for_account (lines 103-109): {account_id: role}
GetRoleForAccount(account_id, ans) ==
    [raised  |-> GetRole(account_id, ans).raised,
     account |-> account_id,
     role    |-> GetRole(account_id, ans).role]

\* The join fed in the order the tasks finished instead of the order of
\* the awaitables.
JoinInCompletionOrder(accounts, responses) ==
    [i \in DOMAIN completed |->
        [account_id |-> responses[completed[i]].account,
         role       |-> responses[completed[i]].role]]

\* lines 114-118: the dict built from the gathered responses, in the order of
\* the awaitables handed to gather
JoinResponses(accounts, responses) ==
    [i \in DOMAIN accounts |->
        [account_id |-> responses[accounts[i]].account,
         role       |-> responses[accounts[i]].role]]

FetchStart ==
    /\ fpc = "start"
    /\ fetched' = [a \in {} |-> None]
    /\ fpc' = "gather"
    /\ UNCHANGED <<aws_accounts, outcome, completed, returned>>
    /\ UNCHANGED <<aspectVars, deleteVars, driverVars, getAppVars, mergeVars, validateVars, scopeVars, listAppsVars>>

\* One per-account task finishes; the tasks finish in any order, also after
\* gather has raised.
FetchComplete(a) ==
    /\ fpc \in {"gather", "raised"}
    /\ a \in Range(aws_accounts) /\ a \notin DOMAIN fetched
    /\ fetched' = [x \in DOMAIN fetched \cup {a} |->
                      IF x = a THEN GetRoleForAccount(a, outcome[a]) ELSE fetched[x]]
    /\ completed' = Append(completed, a)
    /\ UNCHANGED <<aws_accounts, outcome, fpc, returned>>
    /\ UNCHANGED <<aspectVars, deleteVars, driverVars, getAppVars, mergeVars, validateVars, scopeVars, listAppsVars>>

\* asyncio.gather (line 111) without return_exceptions: the first exception
\* of a task is raised to the caller of get_role_across_accounts
FetchRaise ==
    /\ fpc = "gather"
    /\ \E a \in DOMAIN fetched : fetched[a].raised
    /\ fpc' = "raised"
    /\ UNCHANGED <<aws_accounts, outcome, fetched, completed, returned>>
    /\ UNCHANGED <<aspectVars, deleteVars, driverVars, getAppVars, mergeVars, validateVars, scopeVars, listAppsVars>>

FetchReturn ==
    /\ fpc = "gather"
    /\ DOMAIN fetched = Range(aws_accounts)
    /\ \A a \in DOMAIN fetched : ~fetched[a].raised
    /\ returned' = Some(JoinResponses(aws_accounts, fetched))
    /\ fpc' = "returned"
    /\ UNCHANGED <<aws_accounts, outcome, fetched, completed>>
    /\ UNCHANGED <<aspectVars, deleteVars, driverVars, getAppVars, mergeVars, validateVars, scopeVars, listAppsVars>>

InitFetch ==
    /\ aws_accounts \in AccountLists
    /\ outcome \in [Range(aws_accounts) -> Answers]
    /\ fpc = "start"
    /\ fetched = None
    /\ completed = <<>>
    /\ returned = None
    /\ IdleAspects /\ IdleDelete /\ IdleDriver /\ IdleGetApp /\ IdleMerge /\ IdleValidate /\ IdleScope /\ IdleListApps

NextFetch ==
    \/ FetchStart
    \/ \E a \in AccountIds : FetchComplete(a)
    \/ FetchRaise
    \/ FetchReturn

SpecFetch == InitFetch /\ [][NextFetch]_vars

\* The caller has the role state of account a.
ReturnedFor(a) ==
    /\ returned # None
    /\ \E i \in DOMAIN returned[1] :
          /\ returned[1][i].account_id = a
          /\ returned[1][i].role = GetRole(a, outcome[a]).role

\* get_role_across_accounts is over: it returned or raised, and no task is
\* still running.
FetchOver ==
    /\ fpc \in {"returned", "raised"}
    /\ DOMAIN fetched = Range(aws_accounts)

\* C10: a provider call that fails for one account does not abort the other
\* accounts: the role state of each non-failing account is returned to the
\* caller, for every subset of failing accounts.
C10_OtherAccountsStillReturned ==
    FetchOver =>
        \A a \in Range(aws_accounts) : outcome[a] # "error" => ReturnedFor(a)

\* What holds of the code: the role states are returned only when no account
\* fails with an error other than a missing role.
C10_ReturnedOnlyWithoutError ==
    FetchOver =>
        IF \E a \in Range(aws_accounts) : outcome[a] = "error"
        THEN fpc = "raised" /\ returned = None
        ELSE \A a \in Range(aws_accounts) : ReturnedFor(a)

\* C11: whatever the order in which the per-account fetches finish, the
\* mapping get_role_across_accounts returns has one entry per input account,
\* in the order of the input list, each with that account's own role state.
C11_JoinedInInputOrder ==
    returned # None =>
        /\ Len(returned[1]) = Len(aws_accounts)
        /\ \A i \in DOMAIN aws_accounts :
              /\ returned[1][i].account_id = aws_accounts[i]
              /\ returned[1][i].role =
                    GetRole(aws_accounts[i], outcome[aws_accounts[i]]).role

\* The fetches finished in another order than the input list and the mapping
\* was returned.
C11_Witness ==
    /\ returned # None
    /\ Len(aws_accounts) >= 2
    /\ completed # aws_accounts
    /\ \E a \in Range(aws_accounts) : outcome[a] = "role"

(***************************************************************************)
(* Order and failure in delete_iam_role                                    *)
(***************************************************************************)
\* The event loop runs the coroutine and its tasks on, and the provider
\* answers every call.
FairDelete == SpecDelete /\ WF_vars(NextDelete)

IssuedOps == {issued[i].op : i \in DOMAIN issued}

\* C29: no delete_instance_profile call is issued until the
\* remove_role_from_instance_profile calls for all instance profiles of the
\* role have completed, in whatever order the concurrent calls complete.
C29_ProfilesDeletedAfterAllRemovals ==
    "delete_instance_profile" \in IssuedOps =>
        \A c \in Range(RemoveTasks(role0.in_profiles)) :
            c \in DOMAIN tasks /\ tasks[c] = "ok"

\* The instance profiles of a role in several of them are being deleted.
C29_Witness ==
    /\ "delete_instance_profile" \in IssuedOps
    /\ Cardinality(role0.in_profiles) >= 2

\* A dependent removal has failed.
DependentFailed ==
    \E c \in DependentCalls : c \in DOMAIN tasks /\ tasks[c] = "err"

\* C30: if a dependent removal fails (removal from or deletion of an instance
\* profile, detaching a managed policy, deleting an inline policy), delete_role
\* is never issued and the failure reaches the caller of delete_iam_role.
C30_FailureStopsDeletion ==
    /\ [](DependentFailed =>
            /\ DeleteRoleCall \notin Range(issued)
            /\ dpc # "done"
            /\ role.exists)
    /\ (DependentFailed ~> dpc = "raised")

\* A dependent removal failed next to one that succeeded, and the failure was
\* raised.
C30_Witness ==
    /\ dpc = "raised" /\ DependentFailed
    /\ \E c \in DependentCalls : c \in DOMAIN tasks /\ tasks[c] = "ok"

(***************************************************************************)
(* Absence and drift detection                                             *)
(***************************************************************************)
\* C12: absence is not an error.  get_role answers a missing role with the
\* empty role state and does not raise; update_assume_role_policy handed an
\* empty existing document returns exactly one Change Record, a CREATE of the
\* assume-role policy, and no UPDATE.
C12_AbsenceIsNotAnError ==
    /\ \A a \in AccountIds :
          /\ ~GetRole(a, "absent").raised
          /\ GetRole(a, "absent").role = <<>>
    /\ \A i \in DOMAIN passes :
          (/\ aspect = "assume"
           /\ ~ExistingTruthy(passes[i].existing)
           /\ ~passes[i].raised) =>
              /\ Len(passes[i].response) = 1
              /\ passes[i].response[1].change_type = "CREATE"
              /\ passes[i].response[1].attribute = "assume_role_policy_document"
              /\ passes[i].response[1].new_value = Some(template)

\* update_assume_role_policy has run on a role without trust policy, once with
\* no document at all and once with the empty dict.
C12_Witness ==
    /\ aspect = "assume" /\ Len(passes) = 2
    /\ passes[1].existing = NoDocument
    /\ passes[2].existing = Parsed(EmptyDoc)
    /\ passes[1].response # <<>>

\* Two documents are structurally equal up to the order of their collections:
\* the same keys and the same statements, each as often.
EqualUpToOrder(d1, d2) ==
    /\ d1.keys = d2.keys
    /\ \A x \in StatementSet : Count(d1.Statement, x) = Count(d2.Statement, x)

\* C15: drift detection is order-insensitive.  When the role has a trust
\* policy that equals the template's up to the order of its collections,
\* update_assume_role_policy returns no Change Record and issues no call; when
\* an inline policy of the role equals the template policy of that name up to
\* order, apply_role_inline_policies returns no record and issues no call for
\* that policy.  Both in plan and in execute mode.
C15_DriftIsOrderInsensitive ==
    \A i \in DOMAIN passes :
        /\ (/\ aspect = "assume"
            /\ ExistingTruthy(passes[i].existing)
            /\ EqualUpToOrder(ExistingLoaded(passes[i].existing).doc, template)) =>
               /\ passes[i].response = <<>>
               /\ passes[i].calls = <<>>
        /\ aspect = "inline" =>
              \A name \in PolicyNameSet :
                  (/\ PolicyTruthy(PolicyMapGet(passes[i].existing, name))
                   /\ PolicyMapGet(template, name) # None
                   /\ EqualUpToOrder(PolicyMapGet(passes[i].existing, name)[1],
                                     PolicyMapGet(template, name)[1])) =>
                      /\ \A k \in DOMAIN passes[i].response :
                            passes[i].response[k].resource_id # name
                      /\ \A k \in DOMAIN passes[i].calls :
                            passes[i].calls[k].key # name

\* An execute pass compared a trust policy with a template that lists the same
\* statements in another order.
C15_Witness ==
    /\ aspect = "assume" /\ passes # <<>>
    /\ passes[1].execute
    /\ ExistingTruthy(passes[1].existing)
    /\ EqualUpToOrder(ExistingLoaded(passes[1].existing).doc, template)
    /\ ExistingLoaded(passes[1].existing).doc.Statement # template.Statement

(***************************************************************************)
(* Shared state and the two modes                                          *)
(***************************************************************************)
\* The caller's log_params mapping after pass i.
LogParamsAfter(i) ==
    IF i = Len(passes) THEN log_params ELSE passes[i + 1].log_before

\* C16: no role aspect operation mutates state it shares with its caller or
\* with the aspect operations running beside it: after every invocation the
\* log_params mapping is what it was before (the execution context, the
\* template data and the existing-state data are only read).
C16_SharedStateUnchanged ==
    \A i \in DOMAIN passes :
        aspect \in RoleAspects => LogParamsAfter(i) = passes[i].log_before

\* What holds of the code: only apply_role_inline_policies writes to
\* log_params, and only for a policy with drift.
C16_OnlyInlineDriftWritesLogParams ==
    \A i \in DOMAIN passes :
        LogParamsAfter(i) # passes[i].log_before =>
            /\ aspect = "inline"
            /\ \E name \in Range(PolicyMapKeys(template)) :
                  InlineHasDrift(template, passes[i].existing, name)

\* C17: plan mode reports every change execute mode makes: on the same input
\* an aspect operation returns the same list of Change Records with
\* execute=false as with execute=true; in particular
\* apply_role_inline_policies returns a DELETE record for every existing
\* inline policy absent from the template in both modes.
C17_PlanReportsWhatExecuteReports ==
    \A i \in DOMAIN passes :
        (PlanThenExecute(i) /\ ~passes[i + 1].raised) =>
            passes[i].response = passes[i + 1].response

\* What holds of the code: every aspect operation but
\* apply_role_inline_policies returns the same records in both modes, and
\* apply_role_inline_policies does once the DELETE records are left out.
C17_SameRecordsButInlineDeletes ==
    \A i \in DOMAIN passes :
        (PlanThenExecute(i) /\ ~passes[i + 1].raised) =>
            IF aspect = "inline"
            THEN passes[i].response =
                    SelectSeq(passes[i + 1].response,
                              LAMBDA c : c.change_type # "DELETE")
            ELSE passes[i].response = passes[i + 1].response

\* C18: maybe_delete_app returns exactly one DELETE Change Record when delete
\* is true and the empty list when delete is false, whatever context.execute
\* is; it issues the provider's delete call if and only if delete is true and
\* context.execute is true.
C18_MaybeDeleteApp ==
    aspect = "delete_app" =>
        \A i \in DOMAIN passes :
            /\ ~passes[i].raised =>
                  IF template
                  THEN /\ Len(passes[i].response) = 1
                       /\ passes[i].response[1].change_type = "DELETE"
                       /\ passes[i].response[1].attribute = "app"
                  ELSE passes[i].response = <<>>
            /\ passes[i].calls =
                  IF template /\ passes[i].execute
                  THEN <<Call("delete_app", "app", None)>>
                  ELSE <<>>

\* The deletion was planned and then executed.
C18_Witness ==
    /\ aspect = "delete_app" /\ template /\ Len(passes) = 2
    /\ ~passes[1].execute /\ passes[2].execute /\ ~passes[2].raised
    /\ ~passes[1].before.deleted /\ live.deleted

(***************************************************************************)
(* Role tags and the calls of one gather                                   *)
(***************************************************************************)
\* A tag list as the set of its (key, value) pairs; a missing value counts as
\* the empty one.
TagPairs(tags) == {<<tags[i].Key, TagGet(tags[i], "")>> : i \in DOMAIN tags}

\* C27: after apply_role_tags has run with execute=true and every provider
\* call succeeded, the role's live tags are the template's tags: the same keys
\* with the same values, also for template tags whose value is empty or
\* missing.
C27_LiveTagsEqualTemplate ==
    aspect = "tags" =>
        \A i \in DOMAIN passes :
            (passes[i].execute /\ ~passes[i].raised) =>
                TagPairs(LiveAfter(i)) = TagPairs(template)

\* What holds of the code: the live tags equal the template's apart from the
\* template tags with an empty or missing value whose key the role did not
\* have.
C27_EqualButNewEmptyTags ==
    aspect = "tags" =>
        \A i \in DOMAIN passes :
            (passes[i].execute /\ ~passes[i].raised) =>
                /\ TagPairs(LiveAfter(i)) \subseteq TagPairs(template)
                /\ \A p \in TagPairs(template) \ TagPairs(LiveAfter(i)) :
                      /\ p[2] = ""
                      /\ p[1] \notin TagMapKeys(passes[i].before)

\* The keys a mutating call acts on: the tag keys of untag_role and tag_role,
\* the policy ARN or policy name of the other calls.
CallKeys(call) ==
    CASE call.op = "untag_role" -> Range(call.payload)
      [] call.op = "tag_role" -> {call.payload[i].Key : i \in DOMAIN call.payload}
      [] OTHER -> {call.key}

\* The role's tags, managed policies or inline policies apart from the order
\* in which the provider lists them.
Unordered(state) == IF aspect = "tags" THEN TagPairs(state) ELSE Range(state)

\* C28: the mutating calls that apply_role_tags, apply_role_managed_policies
\* and apply_role_inline_policies hand to one gather act on pairwise different
\* keys, so the live state that results is the same for every order in which
\* the calls complete.
C28_GatheredCallsCommute ==
    aspect \in {"tags", "managed", "inline"} =>
        \A i \in DOMAIN passes :
            /\ \A a, b \in DOMAIN passes[i].calls :
                  a # b => CallKeys(passes[i].calls[a])
                             \cap CallKeys(passes[i].calls[b]) = {}
            /\ \A o1, o2 \in Gather(passes[i].before, passes[i].calls) :
                  Unordered(o1.live) = Unordered(o2.live)

\* One gather ran a call that adds and a call that removes.
C28_Witness ==
    /\ aspect \in {"tags", "managed", "inline"}
    /\ \E i \in DOMAIN passes :
          /\ ~passes[i].raised
          /\ \E a, b \in DOMAIN passes[i].calls :
                /\ passes[i].calls[a].op \in
                      {"untag_role", "detach_role_policy", "delete_role_policy"}
                /\ passes[i].calls[b].op \in
                      {"tag_role", "attach_role_policy", "put_role_policy"}

(***************************************************************************)
(* get_app and the tenacity retry around it                                *)
(***************************************************************************)
\* stop=tenacity.stop_after_attempt(10)
stop_after_attempt == 10

\* One more attempt than the decorator allows.
StopOneLater(n) == n >= stop_after_attempt + 1

\* tenacity's stop condition after attempt n has failed
Stop(n) == n >= stop_after_attempt

\* The App that lines 56-76 build: the provider's label, the user assignments
\* and then the group assignments whose group could be looked up.
BuildApp(app_raw, group_names) == App(app_raw.name, app_raw.users, group_names)

\* client.get_application(app_id), lines 49-54: err for an app_id the
\* organization does not hold, and for a transient failure of the call.  Any
\* err is raised as Exception.
GetApplication ==
    /\ gpc = "attempt"
    /\ attempt_number' = attempt_number + 1
    /\ get_application_calls' = get_application_calls + 1
    /\ \E err \in BOOLEAN :
          gpc' = IF okta_app = None \/ err THEN "failed" ELSE "users"
    /\ UNCHANGED <<okta_app, got_app>>
    /\ UNCHANGED <<aspectVars, deleteVars, driverVars, fetchVars, mergeVars, validateVars, scopeVars, listAppsVars>>

\* list_app_user_assignments (lines 20-41, called at line 67) returns or raises
ListAppUserAssignments ==
    /\ gpc = "users"
    /\ \E err \in BOOLEAN : gpc' = IF err THEN "failed" ELSE "groups"
    /\ UNCHANGED <<okta_app, attempt_number, get_application_calls, got_app>>
    /\ UNCHANGED <<aspectVars, deleteVars, driverVars, fetchVars, mergeVars, validateVars, scopeVars, listAppsVars>>

\* list_app_group_assignments (lines 79-107, called at line 69) raises when
\* the listing fails and skips a group whose lookup fails; the App is then
\* complete and returned (lines 72-76).
ListAppGroupAssignments ==
    /\ gpc = "groups"
    /\ \/ gpc' = "failed" /\ UNCHANGED got_app
       \/ \E skipped \in SUBSET Range(okta_app[1].groups) :
             /\ got_app' = Some(BuildApp(okta_app[1],
                               SelectSeq(okta_app[1].groups,
                                         LAMBDA g : g \notin skipped)))
             /\ gpc' = "returned"
    /\ UNCHANGED <<okta_app, attempt_number, get_application_calls>>
    /\ UNCHANGED <<aspectVars, deleteVars, driverVars, fetchVars, mergeVars, validateVars, scopeVars, listAppsVars>>

\* tenacity.retry (lines 44-47): an attempt that raised is followed by another
\* one until the stop condition holds, then the error is raised to the caller.
\* No retry= predicate is given, so every Exception is retried.
Retry ==
    /\ gpc = "failed"
    /\ gpc' = IF Stop(attempt_number) THEN "raised" ELSE "attempt"
    /\ UNCHANGED <<okta_app, attempt_number, get_application_calls, got_app>>
    /\ UNCHANGED <<aspectVars, deleteVars, driverVars, fetchVars, mergeVars, validateVars, scopeVars, listAppsVars>>

InitGetApp ==
    /\ gpc = "attempt"
    /\ okta_app \in {None} \cup {Some(a) : a \in LiveApps}
    /\ attempt_number = 0
    /\ get_application_calls = 0
    /\ got_app = None
    /\ IdleAspects /\ IdleDelete /\ IdleDriver /\ IdleFetch /\ IdleMerge /\ IdleValidate /\ IdleScope /\ IdleListApps

NextGetApp ==
    \/ GetApplication
    \/ ListAppUserAssignments
    \/ ListAppGroupAssignments
    \/ Retry

SpecGetApp == InitGetApp /\ [][NextGetApp]_vars

\* The event loop runs the coroutine on and every awaited call is answered.
FairGetApp == SpecGetApp /\ WF_vars(NextGetApp)

GetAppOver == gpc \in {"returned", "raised"}

\* C13: the retry around get_app is bounded.  get_app never makes more than
\* 10 attempts; it surfaces the error exactly when all 10 attempts failed; when
\* an attempt succeeds it returns the app built from that attempt; and it
\* always terminates, by returning or by raising.
C13_RetryIsBounded ==
    /\ [](attempt_number <= stop_after_attempt)
    /\ [](gpc = "raised" => attempt_number = stop_after_attempt /\ got_app = None)
    /\ [](gpc = "returned" =>
            /\ okta_app # None /\ got_app # None
            /\ got_app[1].name = okta_app[1].name
            /\ got_app[1].users = okta_app[1].users
            /\ Range(got_app[1].groups) \subseteq Range(okta_app[1].groups))
    /\ <>GetAppOver

\* Every attempt on an app the organization holds failed and the error was
\* raised.
C13_Witness ==
    /\ gpc = "raised" /\ okta_app # None
    /\ attempt_number = stop_after_attempt

\* C14: get_app called for an app that does not exist makes the provider call
\* exactly once: the failure is not transient and is not retried.
C14_MissingAppCalledOnce ==
    (GetAppOver /\ okta_app = None) => get_application_calls = 1

\* What holds of the code: the missing app is asked for on every one of the
\* 10 attempts.
C14_MissingAppRetriedToTheEnd ==
    (GetAppOver /\ okta_app = None) =>
        /\ gpc = "raised"
        /\ get_application_calls = stop_after_attempt

(***************************************************************************)
(* merge_model on UserProperties and its named groups                      *)
(***************************************************************************)
MaxGroups == 2

\* group names in ascending lexicographic order
GroupNameOrder == <<"bar", "baz", "foo">>
ExpiresAtSet == {"tomorrow", "next_week"}

\* Group(group_name=..., expires_at=...); expires_at is None when it is not set
Group(group_name, expires_at) ==
    [group_name |-> group_name, expires_at |-> expires_at]
Groups ==
    {Group(n, x) : n \in Range(GroupNameOrder),
                   x \in {None} \cup {Some(v) : v \in ExpiresAtSet}}
GroupLists ==
    {s \in SeqsUpTo(Groups, MaxGroups) :
        \A i, j \in DOMAIN s : i # j => s[i].group_name # s[j].group_name}

UserProperties(user_name, groups) == [user_name |-> user_name, groups |-> groups]

GroupNames(groups) == {groups[i].group_name : i \in DOMAIN groups}
GroupNamed(groups, name) ==
    groups[CHOOSE i \in DOMAIN groups : groups[i].group_name = name]

\* The validation of UserProperties orders groups by group_name.
SortGroups(groups) ==
    LET one(name) == IF name \in GroupNames(groups)
                     THEN <<GroupNamed(groups, name)>> ELSE <<>>
    IN  FlatMap(one, GroupNameOrder)

ValidateModel(raw) == UserProperties(raw.user_name, SortGroups(raw.groups))

\* A merge that loses the expiry of the element.
MergeGroupForgetsExpiry(new, existing) ==
    [group_name |-> new.group_name, expires_at |-> None]

\* A merge in which the new element replaces the existing one whole.
MergeGroupNewWins(new, existing) == new

\* Rule 1 on one element: the new value wins, but the operator-owned
\* expires_at keeps its existing value when the new element does not set it.
MergeGroup(new, existing) ==
    [group_name |-> new.group_name,
     expires_at |-> IF new.expires_at = None THEN existing.expires_at
                    ELSE new.expires_at]

\* A merge that keeps the elements only the existing side has.
MergeGroupsKeepExisting(new_groups, existing_groups) ==
    [i \in DOMAIN existing_groups |->
        IF existing_groups[i].group_name \in GroupNames(new_groups)
        THEN MergeGroup(GroupNamed(new_groups, existing_groups[i].group_name),
                        existing_groups[i])
        ELSE existing_groups[i]]
    \o SelectSeq(new_groups,
                 LAMBDA g : g.group_name \notin GroupNames(existing_groups))

\* Rule 2 on a collection keyed by group_name: elements on both sides are
\* merged element-wise, elements only in new are appended, elements only in
\* existing are dropped.
MergeGroups(new_groups, existing_groups) ==
    LET both == SelectSeq(existing_groups,
                          LAMBDA g : g.group_name \in GroupNames(new_groups))
    IN  [i \in DOMAIN both |->
            MergeGroup(GroupNamed(new_groups, both[i].group_name), both[i])]
        \o SelectSeq(new_groups,
                     LAMBDA g : g.group_name \notin GroupNames(existing_groups))

\* merge_model(new_model, existing_model, all_provider_children); rule 3
\* orders the merged collection by its natural key.
MergeModel(new, existing) ==
    UserProperties(new.user_name,
                   SortGroups(MergeGroups(new.groups, existing.groups)))

\* UserProperties(user_name=..., groups=...) for both sides
ValidateModels ==
    /\ mpc = "raw"
    /\ new_model' = ValidateModel(new_model)
    /\ existing_model' = ValidateModel(existing_model)
    /\ mpc' = "validated"
    /\ UNCHANGED merged_model
    /\ UNCHANGED <<aspectVars, deleteVars, driverVars, fetchVars, getAppVars, validateVars, scopeVars, listAppsVars>>

RunMergeModel ==
    /\ mpc = "validated"
    /\ merged_model' = Some(MergeModel(new_model, existing_model))
    /\ mpc' = "merged"
    /\ UNCHANGED <<new_model, existing_model>>
    /\ UNCHANGED <<aspectVars, deleteVars, driverVars, fetchVars, getAppVars, validateVars, scopeVars, listAppsVars>>

\* merge_model(merged, existing_model, ...): the result merged once more
RunMergeAgain ==
    /\ mpc = "merged"
    /\ merged_model' = Some(MergeModel(merged_model[1], existing_model))
    /\ mpc' = "remerged"
    /\ UNCHANGED <<new_model, existing_model>>
    /\ UNCHANGED <<aspectVars, deleteVars, driverVars, fetchVars, getAppVars, validateVars, scopeVars, listAppsVars>>

InitMerge ==
    /\ mpc = "raw"
    /\ new_model \in {UserProperties("foo", g) : g \in GroupLists}
    /\ existing_model \in {UserProperties("foo", g) : g \in GroupLists}
    /\ merged_model = None
    /\ IdleAspects /\ IdleDelete /\ IdleDriver /\ IdleFetch /\ IdleGetApp /\ IdleValidate /\ IdleScope /\ IdleListApps

NextMerge ==
    \/ ValidateModels
    \/ RunMergeModel
    \/ RunMergeAgain

SpecMerge == InitMerge /\ [][NextMerge]_vars

\* C19: merge preserves operator-owned fields.  For an existing and a new
\* element with the same natural key where the new element does not set
\* expires_at, the merged element has the existing element's expires_at.
C19_MergeKeepsExpiresAt ==
    mpc = "merged" =>
        \A n \in Range(new_model.groups) : \A e \in Range(existing_model.groups) :
            (n.group_name = e.group_name /\ n.expires_at = None) =>
                /\ n.group_name \in GroupNames(merged_model[1].groups)
                /\ GroupNamed(merged_model[1].groups, n.group_name).expires_at
                      = e.expires_at

\* A group with an expiry was merged with a discovered group of that name
\* without one.
C19_Witness ==
    /\ mpc = "merged"
    /\ \E n \in Range(new_model.groups) : \E e \in Range(existing_model.groups) :
          /\ n.group_name = e.group_name
          /\ n.expires_at = None /\ e.expires_at # None

\* C20: in a keyed-collection merge the new side decides membership.  The
\* merged collection has exactly the keys of new, once each; an element only
\* in new is taken as it is, an element only in existing is dropped, and an
\* element on both sides carries the existing expires_at unless new sets it.
C20_NewDecidesMembership ==
    mpc = "merged" =>
        LET merged == merged_model[1].groups
        IN  /\ GroupNames(merged) = GroupNames(new_model.groups)
            /\ Len(merged) = Len(new_model.groups)
            /\ \A n \in Range(new_model.groups) :
                  IF n.group_name \in GroupNames(existing_model.groups)
                  THEN GroupNamed(merged, n.group_name).expires_at =
                          IF n.expires_at = None
                          THEN GroupNamed(existing_model.groups,
                                          n.group_name).expires_at
                          ELSE n.expires_at
                  ELSE GroupNamed(merged, n.group_name) = n
            /\ \A e \in Range(existing_model.groups) :
                  e.group_name \notin GroupNames(new_model.groups) =>
                      e.group_name \notin GroupNames(merged)

\* The merge met a group on both sides, one only in new and one only in
\* existing.
C20_Witness ==
    /\ mpc = "merged"
    /\ GroupNames(new_model.groups) \cap GroupNames(existing_model.groups) # {}
    /\ GroupNames(new_model.groups) \ GroupNames(existing_model.groups) # {}
    /\ GroupNames(existing_model.groups) \ GroupNames(new_model.groups) # {}
    /\ \E e \in Range(existing_model.groups) : e.expires_at # None

\* C22: merge is idempotent.  For every validated template value T,
\* merge(T, T, accounts) is T, and merging that result with T again leaves it
\* as it is.
C22_MergeIsIdempotent ==
    (mpc \in {"merged", "remerged"} /\ new_model = existing_model) =>
        merged_model[1] = existing_model

\* A value with two groups, one of them with an expiry, was merged with itself
\* twice.
C22_Witness ==
    /\ mpc = "remerged" /\ new_model = existing_model
    /\ Len(existing_model.groups) = 2
    /\ \E g \in Range(existing_model.groups) : g.expires_at # None

(***************************************************************************)
(* Validation of UserProperties: sorted collections and the tag limit      *)
(***************************************************************************)
MaxItems == 3

\* [{"key": "apple", "value": "red"}] * 50 is accepted, * 51 is rejected
max_tags == 50

\* ord() of the characters of the strings used as keys
Ord ==
    [s \in {"123", "ABC", "abc", "bar", "baz", "foo", "account_a", "account_b"} |->
        CASE s = "123" -> <<49, 50, 51>>
          [] s = "ABC" -> <<65, 66, 67>>
          [] s = "abc" -> <<97, 98, 99>>
          [] s = "bar" -> <<98, 97, 114>>
          [] s = "baz" -> <<98, 97, 122>>
          [] s = "foo" -> <<102, 111, 111>>
          [] s = "account_a" -> <<97, 99, 99, 111, 117, 110, 116, 95, 97>>
          [] s = "account_b" -> <<97, 99, 99, 111, 117, 110, 116, 95, 98>>]

\* a < b on sequences, item by item, a proper prefix first
RECURSIVE LexLess(_, _)
LexLess(a, b) ==
    IF a = <<>> THEN b # <<>>
    ELSE IF b = <<>> THEN FALSE
    ELSE IF Head(a) = Head(b) THEN LexLess(Tail(a), Tail(b))
    ELSE Head(a) < Head(b)

\* s < t on str
StrLess(s, t) == LexLess(Ord[s], Ord[t])

\* k1 < k2 on lists of str
RECURSIVE ListLess(_, _)
ListLess(k1, k2) ==
    IF k1 = <<>> THEN k2 # <<>>
    ELSE IF k2 = <<>> THEN FALSE
    ELSE IF Head(k1) = Head(k2) THEN ListLess(Tail(k1), Tail(k2))
    ELSE StrLess(Head(k1), Head(k2))

\* The fields of UserProperties whose lists are ordered by a natural key, and
\* each one's key as a list of str.
ScopedFields == {"credentials", "path", "permissions_boundary"}
SortedFields == {"access_keys", "groups"} \cup ScopedFields
NaturalKey(f, item) ==
    CASE f = "access_keys" -> <<item.id>>
      [] f = "groups" -> <<item.group_name>>
      [] f \in ScopedFields -> item.included_accounts

AccessKey(id, enabled) == [id |-> id, enabled |-> enabled]
Scoped(included_accounts, value) ==
    [included_accounts |-> included_accounts, value |-> value]
ItemsOf(f) ==
    CASE f = "access_keys" ->
            {AccessKey(id, e) : id \in {"123", "ABC", "abc"}, e \in BOOLEAN}
      [] f = "groups" -> Groups
      [] f \in ScopedFields ->
            {Scoped(a, v) : a \in {<<"account_a">>, <<"account_b">>,
                                   <<"account_a", "account_b">>},
                            v \in {"/engineering", "/finance"}}
      [] f = "tags" -> {[key |-> "apple", value |-> "red"]}

\* The lists handed to the constructor: items with pairwise different natural
\* keys in any order; for tags one tag repeated around the limit.
RawLists(f) ==
    IF f = "tags"
    THEN {[i \in 1..n |-> [key |-> "apple", value |-> "red"]] :
             n \in {0, 1, max_tags - 1, max_tags, max_tags + 1, max_tags + 2}}
    ELSE {l \in SeqsUpTo(ItemsOf(f), MaxItems) :
             \A i, j \in DOMAIN l :
                 i # j => NaturalKey(f, l[i]) # NaturalKey(f, l[j])}

\* A validation that keeps the list as it was given.
SortedByKeyNot(f, items) == items

\* sorted(items, key=natural key)
RECURSIVE SortedByKey(_, _)
SortedByKey(f, items) ==
    IF items = <<>> THEN <<>>
    ELSE LET rest == SortedByKey(f, Tail(items))
             before == SelectSeq(rest, LAMBDA x :
                           ~ListLess(NaturalKey(f, Head(items)), NaturalKey(f, x)))
             after == SelectSeq(rest, LAMBDA x :
                           ListLess(NaturalKey(f, Head(items)), NaturalKey(f, x)))
         IN  before \o <<Head(items)>> \o after

\* A constructor without the limit on the number of tags.
TagCountUnchecked(f, items) == TRUE

\* The field constraint on tags
TagCountOk(f, items) == f # "tags" \/ Len(items) <= max_tags

ValidateField(f, items) == IF f \in SortedFields THEN SortedByKey(f, items) ELSE items

\* UserProperties(user_name="foo", <field>=raw_items): pydantic validation
\* raises ValidationError or builds the model.
ConstructModel ==
    /\ vpc = "raw"
    /\ IF TagCountOk(field, raw_items)
       THEN /\ model_items' = Some(ValidateField(field, raw_items))
            /\ vpc' = "validated"
       ELSE /\ vpc' = "rejected"
            /\ UNCHANGED model_items
    /\ UNCHANGED <<field, raw_items, provider_calls>>
    /\ UNCHANGED <<aspectVars, deleteVars, driverVars, fetchVars, getAppVars, mergeVars, scopeVars, listAppsVars>>

\* properties.<field> = reordered list: assignment does not validate
AssignField ==
    /\ vpc = "validated" /\ field \in SortedFields
    /\ \E p \in Perms(Len(model_items[1])) :
          /\ [i \in DOMAIN p |-> model_items[1][p[i]]] # model_items[1]
          /\ model_items' = Some([i \in DOMAIN p |-> model_items[1][p[i]]])
    /\ vpc' = "assigned"
    /\ UNCHANGED <<field, raw_items, provider_calls>>
    /\ UNCHANGED <<aspectVars, deleteVars, driverVars, fetchVars, getAppVars, mergeVars, scopeVars, listAppsVars>>

\* properties.validate_model_afterward()
ValidateModelAfterward ==
    /\ vpc = "assigned"
    /\ model_items' = Some(ValidateField(field, model_items[1]))
    /\ vpc' = "revalidated"
    /\ UNCHANGED <<field, raw_items, provider_calls>>
    /\ UNCHANGED <<aspectVars, deleteVars, driverVars, fetchVars, getAppVars, mergeVars, scopeVars, listAppsVars>>

\* The template that holds the model is applied: the first provider call.
ApplyModel ==
    /\ vpc \in {"validated", "revalidated"}
    /\ provider_calls' = provider_calls + 1
    /\ vpc' = "applied"
    /\ UNCHANGED <<field, raw_items, model_items>>
    /\ UNCHANGED <<aspectVars, deleteVars, driverVars, fetchVars, getAppVars, mergeVars, scopeVars, listAppsVars>>

InitValidate ==
    /\ vpc = "raw"
    /\ field \in SortedFields \cup {"tags"}
    /\ raw_items \in RawLists(field)
    /\ model_items = None
    /\ provider_calls = 0
    /\ IdleAspects /\ IdleDelete /\ IdleDriver /\ IdleFetch /\ IdleGetApp /\ IdleMerge /\ IdleScope /\ IdleListApps

NextValidate ==
    \/ ConstructModel
    \/ AssignField
    \/ ValidateModelAfterward
    \/ ApplyModel

SpecValidate == InitValidate /\ [][NextValidate]_vars

\* The list is in strictly ascending order of its natural keys.
Ascending(f, items) ==
    \A i, j \in DOMAIN items :
        i < j => ListLess(NaturalKey(f, items[i]), NaturalKey(f, items[j]))

\* C21: after validation a sortable collection (access keys by id, groups by
\* group_name, account-scoped credentials, path and permissions_boundary
\* entries by included_accounts) holds the elements it was given in ascending
\* lexicographic order of their natural keys, whatever order they were given
\* in; validating again after the list was reordered restores that order.
C21_ValidatedCollectionsAreSorted ==
    /\ StrLess("123", "ABC") /\ StrLess("bar", "baz")
    /\ ListLess(<<"account_a">>, <<"account_b">>)
    /\ (field \in SortedFields /\ vpc \in {"validated", "revalidated", "applied"}) =>
          /\ Ascending(field, model_items[1])
          /\ Range(model_items[1]) = Range(raw_items)
          /\ Len(model_items[1]) = Len(raw_items)
          /\ field = "groups" => model_items[1] = SortGroups(raw_items)

\* A list of three items given out of order was validated, reordered and
\* validated again.
C21_Witness ==
    /\ vpc = "revalidated" /\ field \in SortedFields
    /\ Len(raw_items) = 3 /\ ~Ascending(field, raw_items)

\* C26: the number of tags is checked when the user properties are built: up
\* to 50 tags the construction succeeds, from 51 tags on it is rejected with a
\* validation error, no model exists and no provider call is made.
C26_TagCountFailsFast ==
    (field = "tags" /\ vpc # "raw") =>
        /\ vpc = "rejected" <=> Len(raw_items) > 50
        /\ vpc = "rejected" => (model_items = None /\ provider_calls = 0)
        /\ vpc # "rejected" => model_items = Some(raw_items)

\* 51 tags were rejected.
C26_Witness ==
    /\ field = "tags" /\ vpc = "rejected" /\ Len(raw_items) = 51

(***************************************************************************)
(* Account scope of a template and template generation                     *)
(***************************************************************************)
\* The account ids of the configuration, in the order of the configuration.
AccountNames == <<"account_1", "account_2", "account_3", "account_4">>
ConfigAccounts == [i \in 1..MaxAccounts |-> AccountNames[i]]
Wildcard == "*"

\* Sub-lists of the configured accounts
AccountSubLists ==
    {SelectSeq(ConfigAccounts, LAMBDA a : a \in S) : S \in SUBSET Range(ConfigAccounts)}

UserTemplate(included_accounts, excluded_accounts) ==
    [included_accounts |-> included_accounts,
     excluded_accounts |-> excluded_accounts]
UserTemplates ==
    {UserTemplate(inc, exc) : inc \in AccountSubLists \cup {<<Wildcard>>},
                              exc \in AccountSubLists}

\* A resolver for which an explicit inclusion beats the exclusion.
ResolveInclusionWins(a_template, accounts) ==
    SelectSeq(accounts, LAMBDA a :
        \/ a \in Range(a_template.included_accounts)
        \/ /\ Wildcard \in Range(a_template.included_accounts)
           /\ a \notin Range(a_template.excluded_accounts))

\* resolve(template, accounts): the included accounts, every configured
\* account for the wildcard, without the excluded ones; in configuration order
Resolve(a_template, accounts) ==
    SelectSeq(accounts, LAMBDA a :
        /\ \/ Wildcard \in Range(a_template.included_accounts)
           \/ a \in Range(a_template.included_accounts)
        /\ a \notin Range(a_template.excluded_accounts))

\* A generation that keeps the wildcard and excludes the account.
RegenerateKeepsWildcard(a_template, account_id, accounts) ==
    LET remaining == SelectSeq(Resolve(a_template, accounts),
                               LAMBDA a : a # account_id)
    IN  IF remaining = <<>> THEN None
        ELSE IF Wildcard \in Range(a_template.included_accounts)
        THEN Some(UserTemplate(a_template.included_accounts,
                               Append(a_template.excluded_accounts, account_id)))
        ELSE Some(UserTemplate(remaining, a_template.excluded_accounts))

\* A generation that never removes the file.
RegenerateKeepsFile(a_template, account_id, accounts) ==
    Some(UserTemplate(SelectSeq(Resolve(a_template, accounts),
                                LAMBDA a : a # account_id),
                      a_template.excluded_accounts))

\* generate_aws_user_templates for UserMessageDetails(account_id, user_name,
\* delete=True): the template of the user is written with the accounts that
\* still resolve to it, named one by one; without any it is removed.
Regenerate(a_template, account_id, accounts) ==
    LET resolved == Resolve(a_template, accounts)
        remaining == SelectSeq(resolved, LAMBDA a : a # account_id)
    IN  IF remaining = <<>> THEN None
        ELSE IF account_id \in Range(resolved)
        THEN Some(UserTemplate(remaining, a_template.excluded_accounts))
        ELSE Some(a_template)

\* template.write()
WriteTemplate ==
    /\ tpc = "new"
    /\ file_sys_template' = Some(user_template)
    /\ tpc' = "written"
    /\ UNCHANGED <<user_template, touched, file_before, deleted_account>>
    /\ UNCHANGED <<aspectVars, deleteVars, driverVars, fetchVars, getAppVars,
                   mergeVars, validateVars, listAppsVars>>

\* template.excluded_accounts = [...]: a change in memory only
EditExcluded ==
    /\ tpc = "written"
    /\ \E exc \in AccountSubLists :
          /\ exc # user_template.excluded_accounts
          /\ user_template' = UserTemplate(user_template.included_accounts, exc)
    /\ tpc' = "edited"
    /\ UNCHANGED <<file_sys_template, touched, file_before, deleted_account>>
    /\ UNCHANGED <<aspectVars, deleteVars, driverVars, fetchVars, getAppVars,
                   mergeVars, validateVars, listAppsVars>>

\* template.apply(config, ctx): the resource is reconciled in every account
\* the template in memory resolves to
ApplyTemplate ==
    /\ tpc \in {"written", "edited"}
    /\ touched' = Range(Resolve(user_template, ConfigAccounts))
    /\ tpc' = "applied"
    /\ UNCHANGED <<user_template, file_sys_template, file_before, deleted_account>>
    /\ UNCHANGED <<aspectVars, deleteVars, driverVars, fetchVars, getAppVars,
                   mergeVars, validateVars, listAppsVars>>

\* The user is detected as deleted in one account and the templates are
\* generated again from the files.
DetectDelete(account_id) ==
    /\ tpc \in {"written", "edited", "applied"}
    /\ file_before' = file_sys_template
    /\ deleted_account' = Some(account_id)
    /\ file_sys_template' = Regenerate(file_sys_template[1], account_id, ConfigAccounts)
    /\ tpc' = "regenerated"
    /\ UNCHANGED <<user_template, touched>>
    /\ UNCHANGED <<aspectVars, deleteVars, driverVars, fetchVars, getAppVars,
                   mergeVars, validateVars, listAppsVars>>

InitScope ==
    /\ tpc = "new"
    /\ user_template \in UserTemplates
    /\ file_sys_template = None
    /\ touched = {}
    /\ file_before = None
    /\ deleted_account = None
    /\ IdleAspects /\ IdleDelete /\ IdleDriver /\ IdleFetch /\ IdleGetApp /\ IdleListApps
    /\ IdleMerge /\ IdleValidate

NextScope ==
    \/ WriteTemplate
    \/ EditExcluded
    \/ ApplyTemplate
    \/ \E a \in Range(ConfigAccounts) : DetectDelete(a)

SpecScope == InitScope /\ [][NextScope]_vars

\* C23: exclusion always wins.  An account listed in excluded_accounts is
\* never in the resolved account set, also when included_accounts lists it or
\* holds the wildcard; applying a template with included_accounts = ["*"] and
\* one excluded account works on every configured account but that one.
C23_ExclusionAlwaysWins ==
    /\ user_template # None =>
          Range(Resolve(user_template, ConfigAccounts))
             \cap Range(user_template.excluded_accounts) = {}
    /\ tpc = "applied" =>
          /\ touched \cap Range(user_template.excluded_accounts) = {}
          /\ user_template.included_accounts = <<Wildcard>> =>
                touched = Range(ConfigAccounts)
                             \ Range(user_template.excluded_accounts)

\* A template for all accounts was applied with one account excluded in
\* memory.
C23_Witness ==
    /\ tpc = "applied"
    /\ user_template.included_accounts = <<Wildcard>>
    /\ Len(user_template.excluded_accounts) = 1
    /\ file_sys_template[1].excluded_accounts = <<>>
    /\ Cardinality(touched) = MaxAccounts - 1

\* C24: template generation removes the template file when the user was
\* deleted in the only account the template resolves to, and keeps the file
\* while at least one account still resolves to the template.
C24_FileRemovedWithoutAccounts ==
    tpc = "regenerated" =>
        LET left == Range(Resolve(file_before[1], ConfigAccounts))
                       \ {deleted_account[1]}
        IN  /\ left = {} => file_sys_template = None
            /\ left # {} =>
                  /\ file_sys_template # None
                  /\ Range(Resolve(file_sys_template[1], ConfigAccounts)) = left

\* The user of a template with one included account was deleted there.
C24_Witness ==
    /\ tpc = "regenerated" /\ file_sys_template = None
    /\ file_before[1].included_accounts = <<deleted_account[1]>>
    /\ file_before[1].excluded_accounts = <<>>

\* C25: when the user of a template with included_accounts = ["*"] is
\* detected as deleted in one account, the template file written by template
\* generation has neither the wildcard nor that account in included_accounts,
\* and does not resolve to that account.
C25_WildcardBecomesExplicit ==
    (/\ tpc = "regenerated"
     /\ file_before[1].included_accounts = <<Wildcard>>
     /\ deleted_account[1] \in Range(Resolve(file_before[1], ConfigAccounts))
     /\ file_sys_template # None) =>
        /\ Wildcard \notin Range(file_sys_template[1].included_accounts)
        /\ deleted_account[1] \notin Range(file_sys_template[1].included_accounts)
        /\ deleted_account[1] \notin Range(Resolve(file_sys_template[1], ConfigAccounts))

\* The user of a template for all accounts, applied with that account
\* excluded in memory, was deleted in one account.
C25_Witness ==
    /\ tpc = "regenerated"
    /\ file_before[1] = UserTemplate(<<Wildcard>>, <<>>)
    /\ user_template.excluded_accounts = <<deleted_account[1]>>
    /\ touched # {}
    /\ file_sys_template # None

(***************************************************************************)
(* Provider errors in update_app_assignments                               *)
(***************************************************************************)
\* The steps of pass i that the loops of lines 261-331 are to take
StepsOfPass(i) ==
    AssignmentSteps(passes[i].existing, template, passes[i].execute)

\* C31: with execute, a provider error on one assignment (lookup, assign or
\* unassign) is logged and skipped: update_app_assignments does not raise and
\* goes on to every remaining assignment.
C31_ProviderErrorsAreSkipped ==
    \A i \in DOMAIN passes :
        (aspect = "assignments" /\ passes[i].execute) =>
            /\ ~passes[i].raised
            /\ \A k \in DOMAIN StepsOfPass(i) :
                  Fault("lookup", StepsOfPass(i)[k].key) \notin faults =>
                      StepsOfPass(i)[k] \in Range(passes[i].calls)

\* What holds instead: an error of a lookup is skipped, while an error of the
\* assign or unassign call itself raises out of the function at that
\* assignment, so that the steps after it are not taken.
C31_OnlyLookupErrorsAreSkipped ==
    \A i \in DOMAIN passes :
        (aspect = "assignments" /\ passes[i].execute) =>
            LET steps == StepsOfPass(i)
                failing == {k \in DOMAIN steps :
                               /\ Fault("call", steps[k].key) \in faults
                               /\ Fault("lookup", steps[k].key) \notin faults}
            IN  /\ passes[i].raised <=> failing # {}
                /\ failing = {} =>
                      passes[i].calls =
                         SelectSeq(steps, LAMBDA c :
                                      Fault("lookup", c.key) \notin faults)
                /\ \A k \in failing :
                      /\ passes[i].calls[Len(passes[i].calls)] = steps[k]
                      /\ \A j \in DOMAIN steps :
                            j > k => steps[j] \notin Range(passes[i].calls)

(***************************************************************************)
(* The records of update_app_assignments                                   *)
(***************************************************************************)
\* The assignments with an expires_at on each of them
WithExpiresAt(assignments, expires_at) ==
    [i \in DOMAIN assignments |->
        [user |-> assignments[i].user, group |-> assignments[i].group,
         expires_at |-> expires_at[i]]]

RecordsOfType(response, change_type) ==
    SelectSeq(response, LAMBDA r : r.change_type = change_type)

\* C32: update_app_assignments compares users and groups only, not
\* expires_at.  It returns a DETACH record iff a current user or group is not
\* desired, listing current minus desired, and an ATTACH record iff a desired
\* user or group is not current, listing desired minus current; DETACH comes
\* before ATTACH, and equal current and desired sets give the empty list.
C32_AssignmentRecords ==
    \A i \in DOMAIN passes :
        aspect = "assignments" =>
            LET current == passes[i].existing
                response == passes[i].response
                cur_u == Range(UsersOf(current))
                des_u == Range(UsersOf(template))
                cur_g == Range(GroupsOf(current))
                des_g == Range(GroupsOf(template))
                detach == RecordsOfType(response, "DETACH")
                attach == RecordsOfType(response, "ATTACH")
            IN  /\ Len(detach) = (IF cur_u \ des_u # {} \/ cur_g \ des_g # {}
                                  THEN 1 ELSE 0)
                /\ Len(attach) = (IF des_u \ cur_u # {} \/ des_g \ cur_g # {}
                                  THEN 1 ELSE 0)
                /\ response = detach \o attach
                /\ \A k \in DOMAIN detach :
                      /\ Range(detach[k].change_summary[1].users) = cur_u \ des_u
                      /\ Range(detach[k].change_summary[1].groups) = cur_g \ des_g
                /\ \A k \in DOMAIN attach :
                      /\ Range(attach[k].change_summary[1].users) = des_u \ cur_u
                      /\ Range(attach[k].change_summary[1].groups) = des_g \ cur_g
                /\ (cur_u = des_u /\ cur_g = des_g) => response = <<>>
                /\ \A e1 \in [DOMAIN current -> ExpiresAtSet],
                      e2 \in [DOMAIN template -> ExpiresAtSet] :
                      AssignmentsResponse(WithExpiresAt(current, e1),
                                          WithExpiresAt(template, e2)) = response

\* A pass that returned both records, and one that returned none although the
\* app has assignments.
C32_Witness ==
    /\ aspect = "assignments"
    /\ Len(passes) = 2
    /\ Len(passes[1].response) = 2
    /\ passes[1].response[1].change_type = "DETACH"
    /\ passes[1].response[2].change_type = "ATTACH"
    /\ passes[2].response = <<>>
    /\ passes[2].existing # <<>>

(***************************************************************************)
(* okta/app/utils.py: list_all_apps                                        *)
(***************************************************************************)
AppIdOrder == <<"app_1", "app_2", "app_3", "app_4">>
AppIds == {AppIdOrder[i] : i \in 1..MaxApps}
AppIdLists == {l \in SeqsUpTo(AppIds, MaxApps) : NoDup(l)}

RECURSIVE Flatten(_)
Flatten(ps) == IF ps = <<>> THEN <<>> ELSE Head(ps) \o Flatten(Tail(ps))

\* The application listing of an organization: one page, or several pages
\* none of which is empty; no application is listed twice.
PageLists ==
    {ps \in SeqsUpTo(AppIdLists, MaxPages) :
        /\ Len(ps) >= 1
        /\ NoDup(Flatten(ps))
        /\ Len(ps) > 1 => \A i \in DOMAIN ps : ps[i] # <<>>}

\* The users and groups the organization has assigned to its applications
AppUser(login, scope) == [login |-> login, scope |-> scope]
ApplicationUsers(app_id) ==
    CASE app_id = "app_1" -> <<AppUser("u1", "USER"), AppUser("u2", "GROUP")>>
      [] app_id = "app_2" -> <<AppUser("u2", "USER"), AppUser("u3", "USER")>>
      [] app_id = "app_3" -> <<AppUser("u3", "GROUP")>>
      [] OTHER            -> <<>>
ApplicationGroups(app_id) ==
    CASE app_id = "app_1" -> <<"g1", "g2">>
      [] app_id = "app_2" -> <<"g2">>
      [] app_id = "app_3" -> <<>>
      [] OTHER            -> <<"g1">>

\* An element of raw_apps: an application of a page, or, after
\* raw_apps.append(next_apps), a whole page
RawApp(app_id) == [id |-> Some(app_id), page |-> None]
RawPage(page) == [id |-> None, page |-> Some(page)]

\* The dicts list_app_user_assignments and list_app_group_assignments return
UserAssignmentsDict(app_id, logins) ==
    [app_id |-> app_id, user_assignments |-> Some(logins),
     group_assignments |-> None]
GroupAssignmentsDict(app_id, names) ==
    [app_id |-> app_id, user_assignments |-> None,
     group_assignments |-> Some(names)]
\* dict.get(key, [])
Get(value) == IF value = None THEN <<>> ELSE value[1]

\* lines 28-36: the logins of the users that are not assigned through a group
DirectLogins(app_id) ==
    LET one(u) == IF u.scope = "GROUP" THEN <<>> ELSE <<u.login>>
    IN  FlatMap(one, ApplicationUsers(app_id))

\* The tasks of lines 150-151, numbered in the order they are appended
TaskApp(t) == apps[(t + 1) \div 2]
TaskIsForUsers(t) == t % 2 = 1
Tasks == 1..(2 * Len(apps))

\* The results of the tasks in the order the tasks finished.
GatherAssignmentsAsFinished ==
    [i \in DOMAIN finished |-> app_assignments[finished[i]]]

\* await asyncio.gather(*tasks): the results in the order of the awaitables
GatherAssignments == [t \in Tasks |-> app_assignments[t]]

\* lines 153-162
AppsToReturn(the_apps, results) ==
    [i \in DOMAIN the_apps |->
        LET assignments == SelectSeq(results, LAMBDA a : a.app_id = the_apps[i])
            one(assignment) ==
                [k \in DOMAIN Get(assignment.user_assignments) |->
                    UserAssignment(Get(assignment.user_assignments)[k])]
                \o [k \in DOMAIN Get(assignment.group_assignments) |->
                    GroupAssignment(Get(assignment.group_assignments)[k])]
        IN  [id |-> the_apps[i], assignments |-> FlatMap(one, assignments)]]

\* lines 123-126: the first client.list_applications()
ListApplications(err) ==
    /\ lpc = "start"
    /\ list_calls' = 1
    /\ IF err
       THEN /\ lpc' = "raised"
            /\ UNCHANGED <<raw_apps, has_next>>
       ELSE /\ raw_apps' = [i \in DOMAIN pages[1] |-> RawApp(pages[1][i])]
            /\ has_next' = (Len(pages) > 1)
            /\ lpc' = "paging"
    /\ UNCHANGED <<pages, apps, app_assignments, finished, apps_to_return>>
    /\ UNCHANGED <<aspectVars, deleteVars, driverVars, fetchVars, getAppVars,
                   mergeVars, validateVars, scopeVars>>

\* lines 127-132: one turn of the loop.  The loop asks for the listing anew
\* with client.list_applications(), which answers with the first page again,
\* and puts the page into raw_apps as one element.  The loop goes on for as
\* long as the listing has a second page; beyond MaxListCalls calls only the
\* parity of their number is kept, and the pages put into raw_apps are no
\* longer recorded.
ListApplicationsAgain(err) ==
    /\ lpc = "paging"
    /\ has_next
    /\ IF err
       THEN /\ lpc' = "gave_up"
            /\ apps_to_return' = Some(<<>>)
            /\ UNCHANGED <<raw_apps, has_next, list_calls>>
       ELSE /\ IF list_calls < MaxListCalls
               THEN /\ raw_apps' = Append(raw_apps, RawPage(pages[1]))
                    /\ list_calls' = list_calls + 1
               ELSE /\ UNCHANGED raw_apps
                    /\ list_calls' = IF list_calls = MaxListCalls
                                     THEN MaxListCalls + 1 ELSE MaxListCalls
            /\ has_next' = (Len(pages) > 1)
            /\ UNCHANGED <<lpc, apps_to_return>>
    /\ UNCHANGED <<pages, apps, app_assignments, finished>>
    /\ UNCHANGED <<aspectVars, deleteVars, driverVars, fetchVars, getAppVars,
                   mergeVars, validateVars, scopeVars>>

\* lines 133-151: an App and two tasks for every element of raw_apps; an
\* element that is a page has no id, and app_raw.id raises
CreateTasks ==
    /\ lpc = "paging"
    /\ ~has_next
    /\ IF \E i \in DOMAIN raw_apps : raw_apps[i].id = None
       THEN lpc' = "raised" /\ UNCHANGED apps
       ELSE /\ apps' = [i \in DOMAIN raw_apps |-> raw_apps[i].id[1]]
            /\ lpc' = "gather"
    /\ UNCHANGED <<pages, raw_apps, has_next, list_calls, app_assignments,
                   finished, apps_to_return>>
    /\ UNCHANGED <<aspectVars, deleteVars, driverVars, fetchVars, getAppVars,
                   mergeVars, validateVars, scopeVars>>

\* One task returns: list_app_user_assignments with the direct logins,
\* list_app_group_assignments with the names of the groups whose lookup did
\* not fail (lines 95-103).  The tasks finish in any order.
TaskReturns(t) ==
    /\ lpc = "gather"
    /\ t \in Tasks \ Range(finished)
    /\ \E d \in IF TaskIsForUsers(t)
                THEN {UserAssignmentsDict(TaskApp(t), DirectLogins(TaskApp(t)))}
                ELSE {GroupAssignmentsDict(TaskApp(t),
                          SelectSeq(ApplicationGroups(TaskApp(t)),
                                    LAMBDA g : g \notin failed))
                        : failed \in SUBSET Range(ApplicationGroups(TaskApp(t)))} :
          app_assignments' =
              [k \in DOMAIN app_assignments \cup {t} |->
                  IF k = t THEN d ELSE app_assignments[k]]
    /\ finished' = Append(finished, t)
    /\ UNCHANGED <<lpc, pages, raw_apps, has_next, list_calls, apps, apps_to_return>>
    /\ UNCHANGED <<aspectVars, deleteVars, driverVars, fetchVars, getAppVars,
                   mergeVars, validateVars, scopeVars>>

\* One task raises (lines 35, 90): gather hands the exception on
TaskRaises(t) ==
    /\ lpc = "gather"
    /\ t \in Tasks \ Range(finished)
    /\ lpc' = "raised"
    /\ UNCHANGED <<pages, raw_apps, has_next, list_calls, apps, app_assignments,
                   finished, apps_to_return>>
    /\ UNCHANGED <<aspectVars, deleteVars, driverVars, fetchVars, getAppVars,
                   mergeVars, validateVars, scopeVars>>

\* lines 152-162, once every task has returned
ReturnApps ==
    /\ lpc = "gather"
    /\ Range(finished) = Tasks
    /\ apps_to_return' = Some(AppsToReturn(apps, GatherAssignments))
    /\ lpc' = "returned"
    /\ UNCHANGED <<pages, raw_apps, has_next, list_calls, apps, app_assignments,
                   finished>>
    /\ UNCHANGED <<aspectVars, deleteVars, driverVars, fetchVars, getAppVars,
                   mergeVars, validateVars, scopeVars>>

InitListApps ==
    /\ lpc = "start"
    /\ pages \in PageLists
    /\ raw_apps = <<>> /\ has_next = FALSE /\ list_calls = 0
    /\ apps = <<>> /\ app_assignments = <<>> /\ finished = <<>>
    /\ apps_to_return = None
    /\ IdleAspects /\ IdleDelete /\ IdleDriver /\ IdleFetch /\ IdleGetApp
    /\ IdleMerge /\ IdleValidate /\ IdleScope

NextListApps ==
    \/ \E err \in BOOLEAN : ListApplications(err)
    \/ \E err \in BOOLEAN : ListApplicationsAgain(err)
    \/ CreateTasks
    \/ \E t \in 1..(2 * MaxApps) : TaskReturns(t)
    \/ \E t \in 1..(2 * MaxApps) : TaskRaises(t)
    \/ ReturnApps

SpecListApps == InitListApps /\ [][NextListApps]_vars

\* The steps of the program are taken when they can be; the provider is not
\* bound to answer with an error.
FairListApps ==
    /\ SpecListApps
    /\ WF_vars(ListApplications(FALSE))
    /\ WF_vars(ListApplicationsAgain(FALSE))
    /\ WF_vars(CreateTasks)
    /\ WF_vars(\E t \in 1..(2 * MaxApps) : TaskReturns(t))
    /\ WF_vars(ReturnApps)

ListAllAppsOver == lpc \in {"returned", "raised", "gave_up"}
ReturnedIds == [i \in DOMAIN apps_to_return[1] |-> apps_to_return[1][i].id]

\* C33: list_all_apps terminates for every organization whose application
\* listing has finitely many pages, and returns each application of every
\* page exactly once.
C33_ListAllAppsTerminates ==
    /\ <>ListAllAppsOver
    /\ [](lpc = "returned" => ReturnedIds = Flatten(pages))

\* What holds instead: a listing of one page is returned, each application
\* once; with more pages the loop of lines 127-132 is left only by an error
\* of the provider, and nothing of the listing is returned.
C33_OnlyOnePageIsListed ==
    /\ (Len(pages) = 1) ~> ListAllAppsOver
    /\ [](lpc = "returned" => Len(pages) = 1 /\ ReturnedIds = pages[1])
    /\ [](Len(pages) > 1 =>
             /\ lpc \notin {"gather", "returned", "raised"} \/ list_calls = 1
             /\ lpc \in {"paging", "gave_up"} => has_next)

\* C34: the user and group assignments of all apps are gathered at once, and
\* in whatever order the tasks finish each returned app holds the assignments
\* its own two tasks listed and no others, the user assignments before the
\* group assignments; the apps are returned in the order of the listing.
C34_EachAppHoldsItsOwnAssignments ==
    lpc = "returned" =>
        /\ ReturnedIds = pages[1]
        /\ \A i \in DOMAIN apps_to_return[1] :
              LET app_id == apps_to_return[1][i].id
                  logins == Get(app_assignments[2 * i - 1].user_assignments)
                  names == Get(app_assignments[2 * i].group_assignments)
              IN  /\ logins = DirectLogins(app_id)
                  /\ Range(names) \subseteq Range(ApplicationGroups(app_id))
                  /\ apps_to_return[1][i].assignments =
                        [k \in DOMAIN logins |-> UserAssignment(logins[k])]
                        \o [k \in DOMAIN names |-> GroupAssignment(names[k])]

\* Two apps were returned with all their assignments; the group task of the
\* second app finished first and the user task of the first app last.
C34_Witness ==
    /\ lpc = "returned"
    /\ Len(apps_to_return[1]) = 2
    /\ finished[1] = 4 /\ finished[4] = 1
    /\ \A i \in DOMAIN apps_to_return[1] :
          Len(apps_to_return[1][i].assignments)
             = Len(DirectLogins(apps[i])) + Len(ApplicationGroups(apps[i]))
    /\ apps_to_return[1][1].assignments # apps_to_return[1][2].assignments

====
